---- MODULE Spec2Model ----
(***************************************************************************)
(* Model of the statistical decision and computation engine of LabHelpr    *)
(* (src/app/statistical-analysis/page.tsx).                                *)
(*                                                                         *)
(* Numbers are exact rationals <<num, den>> in lowest terms (den > 0); the *)
(* code computes in IEEE doubles, the model in exact arithmetic.           *)
(***************************************************************************)
EXTENDS Integers, Sequences, FiniteSets

(***************************************************************************)
(* Bounds of the model.                                                    *)
(***************************************************************************)
\* longest list of p-values handed to adjustPValues
MaxM == 3
\* p-values handed to adjustPValues are the multiples of 1/PRes in [0,1]
PRes == 4
\* most values of one arm of a two-group data set
MaxN == 3
\* longest list handed to multiMode
MaxModeLen == 5
\* longest list handed to applyTransform of the descriptive library
MaxTransformLen == 4
\* most rows handed to sanitizeRows
MaxSanitizeRows == 3
\* most rows of a short data set handed to computeGroupStats
MaxStatRows == 2
\* rows of a one-group data set long enough to hold an outlier
OutlierRows == 5
\* most observations of one survival group
MaxSeries == 4
\* observation times are 1..MaxTime
MaxTime == 2
\* most observations of the first group handed to logRankTest
MaxLogRankN == 2
\* most records handed to computeFoldChanges
MaxFoldGroups == 3

\* Math.sqrt is computed to multiples of 1 / SqrtScale
SqrtScale == 100
\* no square root taken in the model exceeds SqrtCeiling / SqrtScale
SqrtCeiling == 10000

(***************************************************************************)
(* Exact rational arithmetic.                                              *)
(***************************************************************************)
RECURSIVE Gcd(_, _)
Gcd(a, b) == IF b = 0 THEN a ELSE Gcd(b, a % b)

Rat(n, d) == LET g == Gcd(n, d) IN <<n \div g, d \div g>>

RZero == <<0, 1>>
ROne == <<1, 1>>

RLe(x, y) == x[1] * y[2] <= y[1] * x[2]
RLt(x, y) == x[1] * y[2] < y[1] * x[2]
RMin(x, y) == IF RLe(x, y) THEN x ELSE y
RMax(x, y) == IF RLe(x, y) THEN y ELSE x
\* (k / j) * p for integers k >= 0, j > 0
RScale(k, j, p) == Rat(k * p[1], j * p[2])

(***************************************************************************)
(* adjustPValues (page.tsx 466-496).                                       *)
(***************************************************************************)
PAdjustMethod == {"none", "bonferroni", "holm", "bh"}

\* values.map((p, i) => ({ p, i })).sort((a, b) => a.p - b.p): the original
\* indices (1-based) in ascending order of p; Array.prototype.sort is stable,
\* so equal p-values keep their input order.
SortPos(values, i) ==
  1 + Cardinality({j \in 1..Len(values) :
        RLt(values[j], values[i]) \/ (values[j] = values[i] /\ j < i)})

SortedIdx(values) ==
  [r \in 1..Len(values) |-> CHOOSE i \in 1..Len(values) : SortPos(values, i) = r]

\* sorted.forEach((item, idx) => adjusted[item.i] = Math.min(1, (m - idx) * item.p))
\* (idx is 0-based in the code, r = idx + 1 here)
HolmRaw(values, sorted) ==
  LET m == Len(values) IN
  [i \in 1..m |->
     LET r == CHOOSE q \in 1..m : sorted[q] = i
     IN RMin(ROne, RScale(m - (r - 1), 1, values[i]))]

\* let cum = 0; for (let i = m - 1; i >= 0; i--) { cum = max(cum, adjusted[sorted[i].i]);
\*   adjusted[sorted[i].i] = cum }
RECURSIVE HolmCum(_, _, _, _)
HolmCum(adjusted, sorted, r, cum) ==
  IF r = 0 THEN adjusted
  ELSE LET c == RMax(cum, adjusted[sorted[r]])
       IN HolmCum([adjusted EXCEPT ![sorted[r]] = c], sorted, r - 1, c)

\* let minAdj = 1; for (let i = m - 1; i >= 0; i--) { adj = (m / (i + 1)) * sorted[i].p;
\*   minAdj = min(minAdj, adj); adjusted[sorted[i].i] = min(1, minAdj) }
RECURSIVE BhWalkNoRunningMin(_, _, _, _, _)
BhWalkNoRunningMin(values, adjusted, sorted, r, minAdj) ==
  IF r = 0 THEN adjusted
  ELSE LET adj == RScale(Len(values), r, values[sorted[r]])
       IN BhWalkNoRunningMin(values, [adjusted EXCEPT ![sorted[r]] = RMin(ROne, adj)],
                             sorted, r - 1, adj)

RECURSIVE BhWalk(_, _, _, _, _)
BhWalk(values, adjusted, sorted, r, minAdj) ==
  IF r = 0 THEN adjusted
  ELSE LET adj == RScale(Len(values), r, values[sorted[r]])
           mn == RMin(minAdj, adj)
       IN BhWalk(values, [adjusted EXCEPT ![sorted[r]] = RMin(ROne, mn)],
                 sorted, r - 1, mn)

BonferroniUncapped(values) ==
  [i \in 1..Len(values) |-> RScale(Len(values), 1, values[i])]

Bonferroni(values) ==
  [i \in 1..Len(values) |-> RMin(ROne, RScale(Len(values), 1, values[i]))]

Holm(values) ==
  LET sorted == SortedIdx(values)
  IN HolmCum(HolmRaw(values, sorted), sorted, Len(values), RZero)

BenjaminiHochberg(values) ==
  LET sorted == SortedIdx(values)
      m == Len(values)
  IN BhWalk(values, [i \in 1..m |-> ROne], sorted, m, ROne)

adjustPValues(values, method) ==
  IF Len(values) = 0 \/ method = "none" THEN values
  ELSE IF method = "bonferroni" THEN Bonferroni(values)
  ELSE IF method = "holm" THEN Holm(values)
  ELSE IF method = "bh" THEN BenjaminiHochberg(values)
  ELSE values

(***************************************************************************)
(* The page's data and options (StatisticalAnalysisPage, page.tsx 979-).   *)
(* A group is the list of its biological-replicate means, as returned by   *)
(* aggregateBiologicalMeans; an absent group is the empty list. Groups are  *)
(* keyed by the treatment column. Of the transform modes the model has     *)
(* none and log10, of the data types continuous and dose-response (the     *)
(* decision memo reads dataType only in its dose-response test).           *)
(***************************************************************************)
GroupNames == {"A", "B", "C"}
\* Object.keys order: the order in which the groups first appear in the rows
GroupOrder == <<"A", "B", "C">>
Values == {0, 1}

NaN == <<0, 0>>
IsNaN(x) == x[2] = 0
\* JavaScript's x < y and x > y on numbers: false when either side is NaN
NumLt(x, y) == ~IsNaN(x) /\ ~IsNaN(y) /\ RLt(x, y)
NumGt(x, y) == NumLt(y, x)

\* the fixed threshold 0.05 of the decision tree
AlphaNum == 5
AlphaDen == 100
Alpha == Rat(AlphaNum, AlphaDen)

RECURSIVE Log10(_)
\* Math.log10 on the powers of ten
Log10(v) == IF v = 1 THEN 0 ELSE 1 + Log10(v \div 10)

RECURSIVE FilterPositive(_)
FilterPositive(vals) ==
  IF vals = <<>> THEN <<>>
  ELSE IF Head(vals) > 0 THEN <<Head(vals)>> \o FilterPositive(Tail(vals))
       ELSE FilterPositive(Tail(vals))

\* applyTransform(values, mode).vals for the modes none and log10
applyTransform(vals, mode) ==
  IF mode = "none" THEN vals
  ELSE IF mode = "log10"
       THEN LET kept == FilterPositive(vals) IN [i \in 1..Len(kept) |-> Log10(kept[i])]
       ELSE vals

\* transformedGroups: the keys of groups, each with its transformed values
TransformedGroups(grps, mode) ==
  [g \in GroupNames |-> applyTransform(grps[g], mode)]

RECURSIVE KeysFrom(_, _, _)
KeysFrom(present, order, i) ==
  IF i > Len(order) THEN <<>>
  ELSE IF order[i] \in present THEN <<order[i]>> \o KeysFrom(present, order, i + 1)
       ELSE KeysFrom(present, order, i + 1)

\* Object.keys(transformedGroups).filter((k) => transformedGroups[k].length > 0)
GroupKeys(tg) == KeysFrom({g \in GroupNames : Len(tg[g]) > 0}, GroupOrder, 1)

RECURSIVE FlatFrom(_, _)
FlatFrom(tg, i) ==
  IF i > Len(GroupOrder) THEN <<>> ELSE tg[GroupOrder[i]] \o FlatFrom(tg, i + 1)

\* Object.values(transformedGroups).flat()
FlatValues(tg) == FlatFrom(tg, 1)

AllEqual(vals) == \A i, j \in 1..Len(vals) : vals[i] = vals[j]

(***************************************************************************)
(* Diagnostics (page.tsx 1300-1315). The p-values of the normality and     *)
(* variance tests come from jStat's distribution functions; where the code *)
(* fixes them (short or constant samples, zero denominators) the model     *)
(* computes them, elsewhere they are inputs sw and lv of the evaluation.   *)
(***************************************************************************)
PLow == Rat(1, 100)
PMid == Rat(4, 100)
PHigh == Rat(1, 2)

\* shapiroWilkApprox(values).p: 1 when n < 3; a constant sample gives w = 1,
\* y = log(0) = -Infinity and p = 1
shapiroWilkApproxP(vals, sw) ==
  IF Len(vals) < 3 THEN ROne
  ELSE IF AllEqual(vals) THEN ROne
  ELSE sw

IntSortPos(vals, i) ==
  1 + Cardinality({j \in 1..Len(vals) :
        vals[j] < vals[i] \/ (vals[j] = vals[i] /\ j < i)})

IntSorted(vals) ==
  [r \in 1..Len(vals) |-> vals[CHOOSE i \in 1..Len(vals) : IntSortPos(vals, i) = r]]

\* twice the median of a non-empty list (simple-statistics median)
Median2(vals) ==
  LET srt == IntSorted(vals)
      n == Len(vals)
  IN IF n % 2 = 1 THEN 2 * srt[(n + 1) \div 2]
     ELSE srt[n \div 2] + srt[n \div 2 + 1]

Abs(x) == IF x < 0 THEN -x ELSE x

\* the denominator of leveneTest is 0: within every group all |x - median| agree
LeveneDenominatorZero(tg) ==
  \A g \in GroupNames :
    \A i, j \in 1..Len(tg[g]) :
      Abs(2 * tg[g][i] - Median2(tg[g])) = Abs(2 * tg[g][j] - Median2(tg[g]))

NoVarianceCheck == [isNull |-> TRUE, p |-> ROne]

\* leveneTest(groups): null with fewer than 2 non-empty groups, p = 1 on a
\* zero denominator
leveneTest(tg, lv) ==
  IF Len(GroupKeys(tg)) < 2 THEN NoVarianceCheck
  ELSE IF LeveneDenominatorZero(tg) THEN [isNull |-> FALSE, p |-> ROne]
  ELSE [isNull |-> FALSE, p |-> lv]

NoDiagnostics ==
  [isNull |-> TRUE, normal |-> ROne, transformedNormal |-> ROne,
   varianceCheck |-> NoVarianceCheck]

\* the diagnostics memo: null without values; transformedValues is flatValues
\* diagnostics whose transformed normality comes from a list of its own
DiagnosticsTransformedApart(tg, sw, lv) ==
  LET flatValues == FlatValues(tg)
  IN IF Len(flatValues) = 0 THEN NoDiagnostics
     ELSE [isNull |-> FALSE,
           normal |-> shapiroWilkApproxP(flatValues, sw),
           transformedNormal |-> PHigh,
           varianceCheck |-> leveneTest(tg, lv)]

Diagnostics(tg, sw, lv) ==
  LET flatValues == FlatValues(tg)
      transformedValues == flatValues
  IN IF Len(flatValues) = 0 THEN NoDiagnostics
     ELSE [isNull |-> FALSE,
           normal |-> shapiroWilkApproxP(flatValues, sw),
           transformedNormal |-> shapiroWilkApproxP(transformedValues, sw),
           varianceCheck |-> leveneTest(tg, lv)]

DiagnosticsSet(tg) == {Diagnostics(tg, sw, lv) : sw \in {PLow, PHigh}, lv \in {PLow, PHigh}}

(***************************************************************************)
(* What the decision tree reads of the test library (page.tsx 317-464,     *)
(* 599-673). Statistics and distribution values are inputs; the sample-    *)
(* size conditions under which the code returns null or computes NaN are   *)
(* computed.                                                               *)
(***************************************************************************)
\* pairedTTest(a, b) === null
pairedTTestIsNullLenient(a, b) == Len(a) # Len(b)

pairedTTestIsNull(a, b) == Len(a) # Len(b) \/ Len(a) < 3

NonZeroDiffs(a, b) == Cardinality({i \in 1..Len(a) : a[i] - b[i] # 0})

\* wilcoxonSignedRank(a, b) === null
wilcoxonSignedRankIsNull(a, b) ==
  \/ Len(a) # Len(b)
  \/ Len(a) < 3
  \/ NonZeroDiffs(a, b) < 3

\* studentTTest(a, b, false).p: the Satterthwaite df is 0/0 when an arm has
\* one observation (its variance is 0 and it is divided by n - 1 = 0)
WelchP(a, b, lvl) == IF Len(a) < 2 \/ Len(b) < 2 THEN NaN ELSE lvl

TotalN(tg) == Len(FlatValues(tg))

\* anovaOneWay(groups).p: msWithin is 0/0 when dfWithin = n - k is 0
AnovaP(tg, lvl) == IF TotalN(tg) - Len(GroupKeys(tg)) = 0 THEN NaN ELSE lvl

\* the pair labels of tukeyHSD and dunnPosthoc: keys[i] vs keys[j], i < j
RECURSIVE PairsFrom(_, _, _)
PairsFrom(keys, i, j) ==
  IF i > Len(keys) THEN <<>>
  ELSE IF j > Len(keys) THEN PairsFrom(keys, i + 1, i + 2)
       ELSE <<<<keys[i], keys[j]>>>> \o PairsFrom(keys, i, j + 1)

PairLabels(keys) == PairsFrom(keys, 1, 2)

(***************************************************************************)
(* formatP (page.tsx 216-219).                                             *)
(***************************************************************************)
\* floor(n / d + 1/2)
RoundHalfUp(n, d) == (2 * n + d) \div (2 * d)

\* Number.prototype.toPrecision(3) of p in [0.001, 1]
ToPrecision3(p) ==
  LET scale == IF RLe(ROne, p) THEN 100
               ELSE IF RLe(Rat(1, 10), p) THEN 1000
               ELSE IF RLe(Rat(1, 100), p) THEN 10000
               ELSE 100000
  IN Rat(RoundHalfUp(p[1] * scale, p[2]), scale)

formatP(p) ==
  IF NumLt(p, Rat(1, 1000)) THEN [lt |-> TRUE, value |-> Rat(1, 1000)]
  ELSE IF IsNaN(p) THEN [lt |-> FALSE, value |-> NaN]
  ELSE [lt |-> FALSE, value |-> ToPrecision3(p)]

(***************************************************************************)
(* DecisionOutcome (page.tsx 49-53) and the decision memo (1317-1441).     *)
(* Of resultSummary the model keeps which statistic heads it, whether the  *)
(* Student text is appended, and the pairwise comparisons it lists; the    *)
(* statistics, effect sizes and bootstrap intervals in the text are left   *)
(* out.                                                                    *)
(***************************************************************************)
NotShown == [shown |-> FALSE, pairs |-> <<>>]

NoSummary ==
  [present |-> FALSE, text |-> "", student |-> FALSE,
   holm |-> NotShown, dunn |-> NotShown, dunnett |-> <<>>]

Summary(text) == [NoSummary EXCEPT !.present = TRUE, !.text = text]

NullDecision == [isNull |-> TRUE, test |-> "", rationale |-> "", resultSummary |-> NoSummary]

Outcome(test, rationale, summary) ==
  [isNull |-> FALSE, test |-> test, rationale |-> rationale, resultSummary |-> summary]

\* what one evaluation of the memo executed: the library functions called,
\* the omnibus p-value, the raw pairwise families and the adjustPValues calls
NoWork ==
  [calls |-> {}, omnibusP |-> NaN, pairwiseRaw |-> <<>>, dunnettRaw |-> <<>>,
   adjustLog |-> {}]

Run(outcome, work) == [decision |-> outcome, work |-> work]

Normal(diag) == NumGt(diag.normal, Alpha)

TransformedBetter(diag) ==
  NumGt(diag.transformedNormal, Alpha) /\ ~NumGt(diag.normal, Alpha)

VarianceEqualAlways(diag) == TRUE

VarianceEqual(diag) ==
  IF diag.varianceCheck.isNull THEN TRUE ELSE NumGt(diag.varianceCheck.p, Alpha)

\* a dose dispatch that is tried only when no group comparison applies
DoseFlaggedFewGroups(dType, conc, k) == dType = "dose-response" /\ conc /\ k < 2

\* dataType === "dose-response" && mapping.concentration, tested before the
\* group count k is looked at
DoseFlagged(dType, conc, k) == dType = "dose-response" /\ conc

DoseRun ==
  Run(Outcome("4-Parameter Logistic (4PL) regression",
              "Dose-response data detected (continuous response vs concentration). Fitting 4PL to estimate EC50/IC50 with CI.",
              NoSummary),
      NoWork)

\* k === 2, independence === "paired"
PairedRun(a, b, diag) ==
  IF Normal(diag)
  THEN IF pairedTTestIsNull(a, b)
       THEN Run(Outcome("Paired t-test",
                         "Need equal-length pairs (n>=3) for paired t-test.",
                         Summary("Insufficient paired data.")),
                 [NoWork EXCEPT !.calls = {"pairedTTest"}])
       ELSE Run(Outcome("Paired t-test",
                         "Continuous data, normal distribution, paired/matched samples. Paired t-test is appropriate.",
                         Summary("t")),
                 [NoWork EXCEPT !.calls = {"pairedTTest"}])
  ELSE IF TransformedBetter(diag)
  THEN Run(Outcome("Transform + re-test",
                    "Data deviated from normality; transformation suggested before proceeding to paired testing.",
                    NoSummary),
            NoWork)
  ELSE IF wilcoxonSignedRankIsNull(a, b)
       THEN Run(Outcome("Wilcoxon signed-rank",
                         "Need equal-length pairs (n>=3, non-zero diffs) for Wilcoxon.",
                         Summary("Insufficient paired data.")),
                 [NoWork EXCEPT !.calls = {"wilcoxonSignedRank"}])
       ELSE Run(Outcome("Wilcoxon signed-rank",
                         "Non-normal paired data; Wilcoxon signed-rank compares paired differences.",
                         Summary("W")),
                 [NoWork EXCEPT !.calls = {"wilcoxonSignedRank", "bootstrapDiffCI"}])

\* k === 2, not paired
UnpairedRun(a, b, diag, indep) ==
  IF Normal(diag) /\ indep = "independent"
  THEN Run(Outcome("Welch's t-test (default, two-tailed)",
                    IF VarianceEqual(diag)
                    THEN "Continuous data, normal distribution, independent samples. Welch reported by default; Student's t-test (assumes equal variance) also available."
                    ELSE "Continuous data, normal distribution, independent samples. Welch used because variances may differ (default, robust).",
                    [Summary("Welch t") EXCEPT !.student = VarianceEqual(diag)]),
            [NoWork EXCEPT !.calls = {"studentTTest"}])
  ELSE IF TransformedBetter(diag)
  THEN Run(Outcome("Transform + re-test",
                    "Data deviated from normality; transformation suggested before proceeding to parametric testing.",
                    NoSummary),
            NoWork)
  ELSE Run(Outcome("Mann-Whitney U",
                    "Data remain non-normal after transformation. Non-parametric comparison between two independent groups is recommended.",
                    Summary("U")),
            [NoWork EXCEPT !.calls = {"mannWhitneyU"}])

Levels == {PLow, PMid}
OmnibusLevels == {PLow, PHigh}

\* the raw p-values of a family of n pairwise comparisons: all at one level,
\* or the first below the rest
Families(n) ==
  {[i \in 1..n |-> lvl] : lvl \in Levels}
  \cup {[i \in 1..n |-> IF i = 1 THEN PLow ELSE PMid]}

\* The p-values the library computes from the data with jStat: that of the
\* omnibus test (anovaOneWay when the data are normal, kruskalWallis
\* otherwise), those of the pairwise family (tukeyHSD, dunnPosthoc) and that
\* of a Welch comparison with the control. They are fixed by the data.
NoStats == [omnibus |-> PHigh, pairwise |-> <<>>, versus |-> PMid]

StatsSet(tg) ==
  LET keys == GroupKeys(tg)
  IN IF Len(keys) < 3 THEN {NoStats}
     ELSE {[omnibus |-> o, pairwise |-> f, versus |-> v] :
             o \in OmnibusLevels, f \in Families(Len(PairLabels(keys))), v \in {PMid}}

RECURSIVE SigPairsFrom(_, _, _)
\* .filter((p) => p.pAdj < 0.05).map((p) => `${p.pair} (${formatP(p.pAdj)})`)
SigPairsFrom(labels, pAdj, i) ==
  IF i > Len(labels) THEN <<>>
  ELSE IF NumLt(pAdj[i], Alpha)
       THEN <<[pair |-> labels[i], shown |-> formatP(pAdj[i])]>>
            \o SigPairsFrom(labels, pAdj, i + 1)
       ELSE SigPairsFrom(labels, pAdj, i + 1)

SigPairs(labels, pAdj) == SigPairsFrom(labels, pAdj, 1)

\* the groups compared with the control: Object.keys(transformedGroups)
\* .filter((g) => g !== control && tg[g].length && tg[control].length)
DunnettOthers(tg, rawKeys, control) ==
  KeysFrom({g \in rawKeys : g # control /\ Len(tg[g]) > 0 /\ Len(tg[control]) > 0},
           GroupOrder, 1)

\* dunnettControl && transformedGroups[dunnettControl]
DunnettConfigured(rawKeys, control) == control # "" /\ control \in rawKeys

\* the p-value put into the text of one Dunnett-style pair: the raw Welch p
DunnettShown(p) == formatP(p)

\* anova.p < 0.05: Tukey pairs, their Holm adjustment, Dunnett-style pairs
AnovaPosthocRun(tg, rawKeys, control, ap, stats) ==
  LET keys == GroupKeys(tg)
      labels == PairLabels(keys)
      fam == [i \in 1..Len(labels) |-> stats.pairwise[i]]
      pAdj == adjustPValues(fam, "holm")
      others == IF DunnettConfigured(rawKeys, control)
                THEN DunnettOthers(tg, rawKeys, control) ELSE <<>>
      dRaw == [i \in 1..Len(others) |->
                 [pair |-> <<others[i], control>>,
                  p |-> WelchP(tg[others[i]], tg[control], stats.versus)]]
  IN Run(Outcome("One-Way ANOVA",
                 "Continuous data, normal distribution across groups; >2 groups so ANOVA is appropriate.",
                 [Summary("F") EXCEPT
                    !.holm = [shown |-> TRUE, pairs |-> SigPairs(labels, pAdj)],
                    !.dunnett = [i \in 1..Len(others) |->
                                   [pair |-> dRaw[i].pair, shown |-> DunnettShown(dRaw[i].p)]]]),
         [calls |-> {"anovaOneWay", "tukeyHSD", "adjustPValues"}
                      \cup (IF Len(others) > 0 THEN {"studentTTest"} ELSE {}),
          omnibusP |-> ap,
          pairwiseRaw |-> [i \in 1..Len(labels) |-> [pair |-> labels[i], p |-> fam[i]]],
          dunnettRaw |-> dRaw,
          adjustLog |-> {[values |-> fam, method |-> "holm", adjusted |-> pAdj]}])

PosthocWantedAlways(ap) == TRUE

\* if (anova.p < 0.05)
PosthocWanted(ap) == NumLt(ap, Alpha)

AnovaRun(tg, rawKeys, control, stats) ==
  LET ap == AnovaP(tg, stats.omnibus)
  IN IF PosthocWanted(ap)
     THEN AnovaPosthocRun(tg, rawKeys, control, ap, stats)
     ELSE Run(Outcome("One-Way ANOVA",
                      "Continuous data, normal distribution across groups; >2 groups so ANOVA is appropriate.",
                      Summary("F")),
              [NoWork EXCEPT !.calls = {"anovaOneWay"}, !.omnibusP = ap])

\* kruskalWallis, then dunnPosthoc(transformedGroups, kw, "holm")
KruskalRun(tg, stats) ==
  LET labels == PairLabels(GroupKeys(tg))
      kwP == stats.omnibus
      fam == [i \in 1..Len(labels) |-> stats.pairwise[i]]
      pAdj == adjustPValues(fam, "holm")
      shown == NumLt(kwP, Alpha)
  IN Run(Outcome("Kruskal-Wallis with Dunn post-hoc (Holm-adjusted)",
                 "Data remain non-normal after transformation; Kruskal-Wallis is appropriate for >2 groups.",
                 [Summary("H") EXCEPT
                    !.dunn = [shown |-> shown,
                              pairs |-> IF shown THEN SigPairs(labels, pAdj) ELSE <<>>]]),
         [calls |-> {"kruskalWallis", "dunnPosthoc"}
                      \cup (IF Len(labels) > 0 THEN {"adjustPValues"} ELSE {}),
          omnibusP |-> kwP,
          pairwiseRaw |-> [i \in 1..Len(labels) |-> [pair |-> labels[i], p |-> fam[i]]],
          dunnettRaw |-> <<>>,
          adjustLog |-> IF Len(labels) > 0
                        THEN {[values |-> fam, method |-> "holm", adjusted |-> pAdj]}
                        ELSE {}])

\* k > 2
MultiRun(tg, rawKeys, diag, control, stats) ==
  IF Normal(diag)
  THEN AnovaRun(tg, rawKeys, control, stats)
  ELSE IF TransformedBetter(diag)
  THEN Run(Outcome("Transform + ANOVA/parametric retest",
                   "Non-normal data improved after transform; re-run ANOVA or Welch ANOVA on transformed values.",
                   NoSummary),
           NoWork)
  ELSE KruskalRun(tg, stats)

IsMultiGroupFromOne(k) == k >= 1

\* if (k > 2)
IsMultiGroup(k) == k > 2

\* the decision memo
Evaluate(tg, rawKeys, diag, respCol, dType, conc, indep, control, stats) ==
  IF diag.isNull \/ ~respCol THEN Run(NullDecision, NoWork)
  ELSE LET keys == GroupKeys(tg)
           k == Len(keys)
       IN IF DoseFlagged(dType, conc, k) THEN DoseRun
          ELSE IF k = 2
          THEN IF indep = "paired"
               THEN PairedRun(tg[keys[1]], tg[keys[2]], diag)
               ELSE UnpairedRun(tg[keys[1]], tg[keys[2]], diag, indep)
          ELSE IF IsMultiGroup(k) THEN MultiRun(tg, rawKeys, diag, control, stats)
          ELSE Run(NullDecision, NoWork)

(***************************************************************************)
(* State.                                                                  *)
(***************************************************************************)
VARIABLES
  groups,          \* groups: the biological-replicate means of every group
  transformedGroups, \* the transformedGroups memo
  responseColumn,  \* whether a response column is selected
  transformMode,   \* "none" | "log10"
  independence,    \* "independent" | "paired"
  dataType,        \* "continuous" | "dose-response"
  concentration,   \* whether mapping.concentration is set
  dunnettControl,  \* the control label typed by the user, "" when empty
  diagnostics,     \* the diagnostics memo
  stats,           \* the p-values the test library computes from the data
  decision,        \* the decision memo: a DecisionOutcome or null
  work,            \* what the last evaluation of the decision memo executed
  adjPc,           \* a call of adjustPValues: "idle", "input" or "returned"
  argValues,       \* the caller's list of p-values as it was before the call
  values,          \* the same list object after the call
  method,          \* the PAdjustMethod of the call
  adjusted,        \* the list adjustPValues returned
  callPc,          \* a call of a library function: "idle", "input" or "returned"
  callArgs,        \* its arguments
  callRet          \* what it returned

pageVars ==
  <<groups, transformedGroups, responseColumn, transformMode, independence, dataType, concentration,
    dunnettControl, diagnostics, stats, decision, work>>
adjVars == <<adjPc, argValues, values, method, adjusted>>
callVars == <<callPc, callArgs, callRet>>
vars == <<pageVars, adjVars, callVars>>

NoArgs == [fn |-> "none"]
NoReturn == [isNull |-> TRUE]

CallIdle ==
  /\ callPc = "idle"
  /\ callArgs = NoArgs
  /\ callRet = NoReturn

RECURSIVE SeqsUpTo(_, _)
SeqsUpTo(S, n) ==
  IF n = 0 THEN {<<>>}
  ELSE LET shorter == SeqsUpTo(S, n - 1)
       IN shorter \cup {Append(s, x) : s \in {t \in shorter : Len(t) = n - 1}, x \in S}

(***************************************************************************)
(* The page: loading data and changing the options. Every handler sets one *)
(* piece of state; the memos that depend on it are recomputed in the same  *)
(* render, so each action ends with the new diagnostics and decision.      *)
(***************************************************************************)
NoGroups == [g \in GroupNames |-> <<>>]

RawKeys(grps) == {g \in GroupNames : Len(grps[g]) > 0}

\* the data sets loaded: two arms of up to MaxN values, the second arm repeating
\* one value, or up to three short groups
ArmSamples == SeqsUpTo(Values, MaxN) \ {<<>>}
FlatSamples == {[i \in 1..n |-> v] : n \in 1..MaxN, v \in Values}
ShortSamples == {<<>>, <<0>>, <<0, 1>>, <<1, 1>>}
Datasets ==
  {[g \in GroupNames |-> IF g = "A" THEN a ELSE IF g = "B" THEN b ELSE <<>>] :
     a \in ArmSamples, b \in FlatSamples}
  \cup
  {[g \in GroupNames |-> IF g = "A" THEN a ELSE IF g = "B" THEN b ELSE c] :
     a \in ShortSamples, b \in ShortSamples, c \in ShortSamples}

TransformModes == {"none", "log10"}
Independences == {"independent", "paired"}
DataTypes == {"continuous", "dose-response"}
ControlLabels == {"", "A"}

PageInit ==
  /\ groups = NoGroups
  /\ transformedGroups = NoGroups
  /\ responseColumn = FALSE
  /\ transformMode = "none"
  /\ independence = "independent"
  /\ dataType = "continuous"
  /\ concentration = FALSE
  /\ dunnettControl = ""
  /\ diagnostics = NoDiagnostics
  /\ stats = NoStats
  /\ decision = NullDecision
  /\ work = NoWork

\* the decision memo re-evaluated on the new state
Decide(grps, tg, rc, ind, dt, cn, ctl, diag, st) ==
  LET e == Evaluate(tg, RawKeys(grps), diag, rc, dt, cn, ind, ctl, st)
  IN /\ decision' = e.decision
     /\ work' = e.work

\* New rows and a new mapping arrive: groups, the library's p-values and both
\* memos are recomputed
Load(d, rc, cn, dt) ==
  /\ groups' = d
  /\ transformedGroups' = TransformedGroups(d, transformMode)
  /\ responseColumn' = rc
  /\ concentration' = cn
  /\ dataType' = dt
  /\ diagnostics' \in DiagnosticsSet(transformedGroups')
  /\ stats' \in StatsSet(transformedGroups')
  /\ Decide(d, transformedGroups', rc, independence, dt, cn, dunnettControl,
            diagnostics', stats')

\* A load replaces whatever was loaded before, so loads are taken from the
\* empty page only.
EmptyPage == groups = NoGroups /\ ~responseColumn

\* parseFile(file): the mapping is what inferColumns guesses from the headers,
\* the response column is resolved when a column holds numbers
ParseFile ==
  /\ EmptyPage
  /\ \E d \in Datasets, rc \in BOOLEAN, cn \in BOOLEAN :
       /\ d # NoGroups => rc
       /\ Load(d, rc, cn, dataType)
  /\ UNCHANGED <<transformMode, independence, dunnettControl>>
  /\ UNCHANGED <<adjVars, callVars>>

\* the four sample data sets, reduced to their shape: two groups of three
\* biological means, three groups of two, two groups of two, and a
\* concentration series with one value per concentration
Scenarios ==
  {[data |-> [A |-> <<0, 1, 0>>, B |-> <<1, 1, 1>>, C |-> <<>>],
    type |-> "continuous", concentration |-> FALSE],
   [data |-> [A |-> <<0, 1>>, B |-> <<1, 1>>, C |-> <<1, 1>>],
    type |-> "continuous", concentration |-> FALSE],
   [data |-> [A |-> <<0, 1>>, B |-> <<1, 1>>, C |-> <<>>],
    type |-> "continuous", concentration |-> FALSE],
   [data |-> [A |-> <<0>>, B |-> <<0>>, C |-> <<0>>],
    type |-> "dose-response", concentration |-> TRUE]}

\* loadScenario(csv, type): the response defaults to "Value", the data type
\* is set
LoadScenario ==
  /\ EmptyPage
  /\ \E sc \in Scenarios : Load(sc.data, TRUE, sc.concentration, sc.type)
  /\ UNCHANGED <<transformMode, independence, dunnettControl>>
  /\ UNCHANGED <<adjVars, callVars>>

SetTransformMode ==
  /\ \E tm \in TransformModes \ {transformMode} :
       /\ transformMode' = tm
       /\ transformedGroups' = TransformedGroups(groups, tm)
       /\ diagnostics' \in DiagnosticsSet(transformedGroups')
       /\ stats' \in StatsSet(transformedGroups')
       /\ Decide(groups, transformedGroups', responseColumn, independence, dataType,
                 concentration, dunnettControl, diagnostics', stats')
  /\ UNCHANGED <<groups, responseColumn, independence, dataType, concentration, dunnettControl>>
  /\ UNCHANGED <<adjVars, callVars>>

SetIndependence ==
  /\ \E ind \in Independences \ {independence} :
       /\ independence' = ind
       /\ Decide(groups, transformedGroups, responseColumn, ind, dataType, concentration,
                 dunnettControl, diagnostics, stats)
  /\ UNCHANGED <<groups, transformedGroups, responseColumn, transformMode, dataType, concentration,
                 dunnettControl, diagnostics, stats>>
  /\ UNCHANGED <<adjVars, callVars>>

SetDataType ==
  /\ \E dt \in DataTypes \ {dataType} :
       /\ dataType' = dt
       /\ Decide(groups, transformedGroups, responseColumn, independence, dt, concentration,
                 dunnettControl, diagnostics, stats)
  /\ UNCHANGED <<groups, transformedGroups, responseColumn, transformMode, independence, concentration,
                 dunnettControl, diagnostics, stats>>
  /\ UNCHANGED <<adjVars, callVars>>

\* handleMappingChange("concentration", value)
MapConcentration ==
  /\ concentration' = ~concentration
  /\ Decide(groups, transformedGroups, responseColumn, independence, dataType,
            concentration', dunnettControl, diagnostics, stats)
  /\ UNCHANGED <<groups, transformedGroups, responseColumn, transformMode, independence, dataType,
                 dunnettControl, diagnostics, stats>>
  /\ UNCHANGED <<adjVars, callVars>>

SetDunnettControl ==
  /\ \E ctl \in ControlLabels \ {dunnettControl} :
       /\ dunnettControl' = ctl
       /\ Decide(groups, transformedGroups, responseColumn, independence, dataType,
                 concentration, ctl, diagnostics, stats)
  /\ UNCHANGED <<groups, transformedGroups, responseColumn, transformMode, independence, dataType,
                 concentration, diagnostics, stats>>
  /\ UNCHANGED <<adjVars, callVars>>

AdjIdle ==
  /\ adjPc = "idle"
  /\ argValues = <<>>
  /\ values = <<>>
  /\ method = "none"
  /\ adjusted = <<>>

DecisionInit == PageInit /\ AdjIdle /\ CallIdle

DecisionNext ==
  \/ ParseFile
  \/ LoadScenario
  \/ SetTransformMode
  \/ SetIndependence
  \/ SetDataType
  \/ MapConcentration
  \/ SetDunnettControl

SpecDecision == DecisionInit /\ [][DecisionNext]_vars

(***************************************************************************)
(* One call of adjustPValues on its own.                                   *)
(***************************************************************************)
PGrid == {Rat(n, PRes) : n \in 0..PRes}

\* Scenario 5 of the specification: [0.01, 0.02, 0.03]
Scenario5 == <<Rat(1, 100), Rat(2, 100), Rat(3, 100)>>

PLists == SeqsUpTo(PGrid, MaxM) \cup {Scenario5}

AdjInit ==
  /\ PageInit
  /\ CallIdle
  /\ adjPc = "input"
  /\ argValues \in PLists
  /\ values = argValues
  /\ method \in PAdjustMethod
  /\ adjusted = <<>>

\* What the call leaves in the caller's list: the code reads `values` through
\* map and slice only (it sorts the mapped copy), so the list is unchanged.
ValuesAfterCall(vals, mth) == vals

\* adjusted = adjustPValues(values, method)
CallAdjustPValues ==
  /\ adjPc = "input"
  /\ adjPc' = "returned"
  /\ adjusted' = adjustPValues(values, method)
  /\ values' = ValuesAfterCall(values, method)
  /\ UNCHANGED <<argValues, method>>
  /\ UNCHANGED <<pageVars, callVars>>

AdjNext == CallAdjustPValues

SpecAdjust == AdjInit /\ [][AdjNext]_vars

(***************************************************************************)
(* Reference formulas of the corrections, stated on the raw p-values       *)
(* without reference to a sort order (ties give the same value whichever   *)
(* way they are ordered).                                                  *)
(***************************************************************************)
RECURSIVE RMaxOf(_)
RMaxOf(S) ==
  IF S = {} THEN RZero
  ELSE LET x == CHOOSE y \in S : TRUE IN RMax(x, RMaxOf(S \ {x}))

RECURSIVE RMinOf(_)
RMinOf(S) ==
  IF S = {} THEN ROne
  ELSE LET x == CHOOSE y \in S : TRUE IN RMin(x, RMinOf(S \ {x}))

NumBelow(p, x) == Cardinality({k \in 1..Len(p) : RLt(p[k], x)})
NumAtMost(p, x) == Cardinality({k \in 1..Len(p) : RLe(p[k], x)})

\* min(1, max over j <= i of (m - j) * p_(j)), j counted from 0 in ascending order
HolmFormula(p, i) ==
  RMin(ROne, RMaxOf({RScale(Len(p) - NumBelow(p, p[j]), 1, p[j]) :
                       j \in {k \in 1..Len(p) : RLe(p[k], p[i])}}))

\* min(1, min over j >= i of (m / j) * p_(j)), j counted from 1 in ascending order
BhFormula(p, i) ==
  RMin(ROne, RMinOf({RScale(Len(p), NumAtMost(p, p[j]), p[j]) :
                       j \in {k \in 1..Len(p) : RLe(p[i], p[k])}}))

Returned(mth) == adjPc = "returned" /\ method = mth

Monotone(p, adj) ==
  \A a, b \in 1..Len(p) : RLt(p[a], p[b]) => RLe(adj[a], adj[b])

(***************************************************************************)
(* C1: with method holm the entry of the i-th smallest raw p-value is      *)
(* min(1, max over j <= i of (m - j) * p_(j)), and so an entry with a      *)
(* smaller raw p-value never gets a larger adjusted value than an entry    *)
(* with a larger raw p-value.                                              *)
(***************************************************************************)
C1_HolmStepDown ==
  Returned("holm") =>
    /\ \A i \in 1..Len(argValues) : adjusted[i] = HolmFormula(argValues, i)
    /\ Monotone(argValues, adjusted)

(***************************************************************************)
(* C2: bonferroni(p)[i] >= p[i] for every i, and the holm and bh results   *)
(* are each <= the bonferroni result of the same input at every index.     *)
(***************************************************************************)
C2_BoundedByBonferroni ==
  adjPc = "returned" =>
    \A i \in 1..Len(argValues) :
      /\ RLe(argValues[i], adjustPValues(argValues, "bonferroni")[i])
      /\ method \in {"holm", "bh"} =>
           RLe(adjusted[i], adjustPValues(argValues, "bonferroni")[i])

(***************************************************************************)
(* C9: for every method the returned list has the length of the input and  *)
(* position i holds the adjustment of input position i (the value that the *)
(* entry gets at its place in ascending order); the input list is not      *)
(* modified; none returns the input values, bonferroni min(1, p * m) per   *)
(* entry, and [0.01, 0.02, 0.03] gives [0.03, 0.06, 0.09].                 *)
(***************************************************************************)
SortAscending(p) == [r \in 1..Len(p) |-> p[SortedIdx(p)[r]]]

C9_OrderPreserved ==
  adjPc = "returned" =>
    /\ Len(adjusted) = Len(argValues)
    /\ values = argValues
    /\ method = "none" => adjusted = argValues
    /\ method = "bonferroni" =>
         \A i \in 1..Len(argValues) :
           adjusted[i] = RMin(ROne, Rat(argValues[i][1] * Len(argValues), argValues[i][2]))
    /\ (method = "bonferroni" /\ argValues = Scenario5) =>
         adjusted = <<Rat(3, 100), Rat(6, 100), Rat(9, 100)>>
    /\ \A i \in 1..Len(argValues) :
         adjusted[i] = adjustPValues(SortAscending(argValues), method)[SortPos(argValues, i)]

\* the bonferroni call of Scenario 5 returned
C9_Witness ==
  /\ Returned("bonferroni")
  /\ argValues = Scenario5
  /\ adjusted = <<Rat(3, 100), Rat(6, 100), Rat(9, 100)>>

(***************************************************************************)
(* C10: with method bh the entry of the i-th smallest raw p-value is       *)
(* min(1, min over j >= i of (m / j) * p_(j)); the adjusted values are     *)
(* non-decreasing in the raw p-value and never below the raw p-value.      *)
(***************************************************************************)
C10_BenjaminiHochberg ==
  Returned("bh") =>
    /\ \A i \in 1..Len(argValues) : adjusted[i] = BhFormula(argValues, i)
    /\ \A a, b \in 1..Len(argValues) :
         RLe(argValues[a], argValues[b]) => RLe(adjusted[a], adjusted[b])
    /\ \A i \in 1..Len(argValues) : RLe(argValues[i], adjusted[i])

\* a bh call where a later, larger entry lowers the adjusted value of an earlier one
C10_Witness ==
  /\ Returned("bh")
  /\ Len(argValues) = 3
  /\ \E i \in 1..3 :
       /\ RLt(adjusted[i], RMin(ROne, RScale(3, SortPos(argValues, i), argValues[i])))
       /\ RLt(argValues[i], adjusted[i])

(***************************************************************************)
(* Properties of the decision memo, stated on the state of the page.       *)
(***************************************************************************)
CurGroups == transformedGroups
CurKeys == GroupKeys(CurGroups)
NonEmptyGroups == Cardinality({g \in GroupNames : Len(CurGroups[g]) > 0})
FirstArm == CurGroups[CurKeys[1]]
SecondArm == CurGroups[CurKeys[2]]

Flagged == dataType = "dose-response" /\ concentration

Above05(p) == ~IsNaN(p) /\ RLt(Rat(5, 100), p)
Below05(p) == ~IsNaN(p) /\ RLt(p, Rat(5, 100))

NormalityHolds == Above05(diagnostics.normal)
TransformImproved == Above05(diagnostics.transformedNormal) /\ ~Above05(diagnostics.normal)

Advisory == {"Transform + re-test", "Transform + ANOVA/parametric retest"}
TTests == {"Paired t-test", "Welch's t-test (default, two-tailed)"}
Insufficient == "Insufficient paired data."

PairsUnequalOrFew == Len(FirstArm) # Len(SecondArm) \/ Len(FirstArm) < 3
NonZeroPairs == Cardinality({i \in 1..Len(FirstArm) : FirstArm[i] # SecondArm[i]})

\* C4: with two non-empty groups, paired samples and no dose-response flag the
\* outcome is the Paired t-test when pooled normality holds, else the
\* transform advisory without a result summary when only the transformed
\* normality holds, else Wilcoxon signed-rank; with unequal lengths or fewer
\* than 3 usable pairs (pairs for the t-test, non-zero differences for
\* Wilcoxon) the outcome names the test and its summary is "Insufficient
\* paired data.", and only then.
C4_PairedBranch ==
  (NonEmptyGroups = 2 /\ independence = "paired" /\ ~Flagged) =>
    /\ ~decision.isNull
    /\ IF NormalityHolds
       THEN /\ decision.test = "Paired t-test"
            /\ decision.resultSummary.present
            /\ (decision.resultSummary.text = Insufficient) <=> PairsUnequalOrFew
       ELSE IF TransformImproved
       THEN decision.test \in Advisory /\ ~decision.resultSummary.present
       ELSE /\ decision.test = "Wilcoxon signed-rank"
            /\ decision.resultSummary.present
            /\ (decision.resultSummary.text = Insufficient)
                 <=> (PairsUnequalOrFew \/ NonZeroPairs < 3)

C4_Witness ==
  /\ NonEmptyGroups = 2 /\ independence = "paired" /\ ~Flagged
  /\ Len(FirstArm) = 3 /\ Len(SecondArm) = 3 /\ NonZeroPairs = 2
  /\ decision.test = "Wilcoxon signed-rank"
  /\ decision.resultSummary.text = Insufficient

\* C5: with two non-empty groups, independent samples and no dose-response
\* flag the outcome is Welch's t-test whenever pooled normality holds, with
\* the Student result added to the summary exactly when Levene's p > 0.05;
\* without normality it is the transform advisory or Mann-Whitney U, never a
\* t-test.
C5_IndependentBranch ==
  (NonEmptyGroups = 2 /\ independence = "independent" /\ ~Flagged) =>
    /\ ~decision.isNull
    /\ IF NormalityHolds
       THEN /\ decision.test = "Welch's t-test (default, two-tailed)"
            /\ decision.resultSummary.present
            /\ decision.resultSummary.student <=> Above05(diagnostics.varianceCheck.p)
            /\ work.calls = {"studentTTest"}
       ELSE /\ decision.test \in Advisory \cup {"Mann-Whitney U"}
            /\ decision.test \notin TTests
            /\ ~decision.resultSummary.student
            /\ "studentTTest" \notin work.calls
            /\ decision.test \in Advisory <=> TransformImproved

C5_Witness ==
  /\ NonEmptyGroups = 2 /\ independence = "independent" /\ ~Flagged
  /\ NormalityHolds
  /\ ~diagnostics.varianceCheck.isNull
  /\ ~Above05(diagnostics.varianceCheck.p)
  /\ decision.test = "Welch's t-test (default, two-tailed)"
  /\ ~decision.resultSummary.student

RawPs(family) == [i \in 1..Len(family) |-> family[i].p]

\* the pairs below 0.05 of a family after its Holm adjustment by adjustPValues
HolmSignificant(family) ==
  LET pAdj == adjustPValues(RawPs(family), "holm")
      sig == {i \in 1..Len(family) : Below05(pAdj[i])}
      nth(r) == CHOOSE i \in sig : Cardinality({j \in sig : j < i}) = r - 1
  IN [r \in 1..Cardinality(sig) |->
        [pair |-> family[nth(r)].pair, shown |-> formatP(pAdj[nth(r)])]]

\* the listed pairs of a family come from one adjustPValues call on the p-values
\* of the whole family
RoutedThroughAdjuster(family, listed) ==
  \E call \in work.adjustLog :
    /\ call.values = RawPs(family)
    /\ \A i \in 1..Len(listed) :
         \E j \in 1..Len(family) :
           /\ family[j].pair = listed[i].pair
           /\ listed[i].shown = formatP(call.adjusted[j])

\* C3: every pairwise p-value listed in the outcome (the Holm set after ANOVA,
\* the Dunn pairs after Kruskal-Wallis, the comparisons with the control) is
\* the adjusted value of one adjustPValues call on its whole family.
C3_PairwiseRoutedThroughAdjuster ==
  LET rs == decision.resultSummary
  IN /\ rs.holm.shown => RoutedThroughAdjuster(work.pairwiseRaw, rs.holm.pairs)
     /\ rs.dunn.shown => RoutedThroughAdjuster(work.pairwiseRaw, rs.dunn.pairs)
     /\ Len(rs.dunnett) > 0 => RoutedThroughAdjuster(work.dunnettRaw, rs.dunnett)

ControlExists == dunnettControl # "" /\ Len(groups[dunnettControl]) > 0

\* C6: with more than two non-empty groups and no dose-response flag the
\* outcome is One-Way ANOVA when normality holds; the Holm-adjusted pairwise
\* set is in the summary exactly when the ANOVA p-value is below 0.05, and
\* the comparisons with the control are listed only then and only when the
\* control label names an existing group; without normality the outcome is
\* the transform advisory or else Kruskal-Wallis with the Holm-adjusted Dunn
\* pairs.
C6_MultiGroupBranch ==
  (NonEmptyGroups > 2 /\ ~Flagged) =>
    /\ ~decision.isNull
    /\ IF NormalityHolds
       THEN /\ decision.test = "One-Way ANOVA"
            /\ "anovaOneWay" \in work.calls
            /\ decision.resultSummary.holm.shown <=> Below05(work.omnibusP)
            /\ decision.resultSummary.holm.shown =>
                 decision.resultSummary.holm.pairs = HolmSignificant(work.pairwiseRaw)
            /\ Len(decision.resultSummary.dunnett) > 0 =>
                 Below05(work.omnibusP) /\ ControlExists
            /\ (Below05(work.omnibusP) /\ ControlExists
                  /\ Len(CurGroups[dunnettControl]) > 0) =>
                 Len(decision.resultSummary.dunnett) > 0
            /\ ~decision.resultSummary.dunn.shown
       ELSE IF TransformImproved
       THEN decision.test \in Advisory /\ ~decision.resultSummary.present
       ELSE /\ decision.test = "Kruskal-Wallis with Dunn post-hoc (Holm-adjusted)"
            /\ {"kruskalWallis", "dunnPosthoc"} \subseteq work.calls
            /\ decision.resultSummary.dunn.shown <=> Below05(work.omnibusP)
            /\ decision.resultSummary.dunn.shown =>
                 decision.resultSummary.dunn.pairs = HolmSignificant(work.pairwiseRaw)
            /\ ~decision.resultSummary.holm.shown
            /\ Len(decision.resultSummary.dunnett) = 0

C6_Witness ==
  /\ NonEmptyGroups > 2 /\ ~Flagged
  /\ decision.test = "One-Way ANOVA"
  /\ Below05(work.omnibusP)
  /\ Len(decision.resultSummary.holm.pairs) > 0
  /\ Len(decision.resultSummary.dunnett) = 2

FourPL == "4-Parameter Logistic (4PL) regression"

\* C7 as stated: flagged dose-response data gets the 4PL dispatch for every
\* number of non-empty groups, 0 included.
C7_DoseForEveryGroupCount ==
  Flagged => (~decision.isNull /\ decision.test = FourPL /\ work.calls = {})

\* C7: flagged dose-response data with at least one non-empty group after
\* transformation gets the 4PL dispatch whatever the number of groups, and no
\* group comparison is run; with no non-empty group there is no outcome.
C7_DoseWhenValuesRemain ==
  Flagged =>
    IF NonEmptyGroups >= 1
    THEN ~decision.isNull /\ decision.test = FourPL
         /\ ~decision.resultSummary.present /\ work.calls = {}
    ELSE decision.isNull /\ work.calls = {}

C7_Witness ==
  /\ Flagged
  /\ NonEmptyGroups = 1
  /\ decision.test = FourPL
  /\ work.calls = {}

\* C8: without the dose-response flag and with fewer than two non-empty
\* groups after transformation the decision is null and the memo has run no
\* test.
C8_NoDecisionBelowTwoGroups ==
  (~Flagged /\ NonEmptyGroups < 2) => (decision.isNull /\ work.calls = {})

C8_Witness ==
  /\ ~Flagged
  /\ responseColumn
  /\ NonEmptyGroups = 1
  /\ RawKeys(groups) # {g \in GroupNames : Len(CurGroups[g]) > 0}
  /\ decision.isNull
  /\ work.calls = {}

(***************************************************************************)
(* The descriptive statistics library (src/lib/stats/descriptive.ts) and   *)
(* the helpers of the descriptive page. Each function is called once on    *)
(* arguments drawn from a bounded set.                                     *)
(*                                                                         *)
(* Numbers here are the rationals above extended with the non-finite       *)
(* doubles: NaN, -Infinity and +Infinity.                                  *)
(***************************************************************************)
NegInf == <<-1, 0>>
PosInf == <<1, 0>>

XIsNaN(x) == x = NaN
XFinite(x) == x[2] # 0
XInt(n) == <<n, 1>>

\* x < y on doubles: false when either side is NaN
XLt(x, y) ==
  /\ ~XIsNaN(x)
  /\ ~XIsNaN(y)
  /\ IF XFinite(x) /\ XFinite(y) THEN RLt(x, y)
     ELSE x # y /\ (x = NegInf \/ y = PosInf)

XLe(x, y) == ~XIsNaN(x) /\ ~XIsNaN(y) /\ (x = y \/ XLt(x, y))

\* the elements of a set of numbers without NaN, ascending
XSortSet(S) ==
  [r \in 1..Cardinality(S) |->
     CHOOSE v \in S : Cardinality({u \in S : XLt(u, v)}) = r - 1]

(***************************************************************************)
(* multiMode (descriptive.ts 67-77).                                       *)
(***************************************************************************)
\* counts.get(v)
CountOf(vals, v) == Cardinality({i \in 1..Len(vals) : vals[i] = v})

\* Math.max(...counts.values())
MaxCount(vals) ==
  CHOOSE c \in 1..Len(vals) :
    /\ \E i \in 1..Len(vals) : CountOf(vals, vals[i]) = c
    /\ \A i \in 1..Len(vals) : CountOf(vals, vals[i]) <= c

\* the entries kept by .filter(([, c]) => c === maxCount)
ModesOfSmallestOnly(vals, maxCount) ==
  LET tied == {vals[i] : i \in {j \in 1..Len(vals) : CountOf(vals, vals[j]) = maxCount}}
  IN {CHOOSE v \in tied : \A u \in tied : XLe(v, u)}

ModesOf(vals, maxCount) ==
  {vals[i] : i \in {j \in 1..Len(vals) : CountOf(vals, vals[j]) = maxCount}}

multiMode(vals) ==
  IF Len(vals) = 0 THEN <<>>
  ELSE LET maxCount == MaxCount(vals)
       IN IF maxCount <= 1 THEN <<>>
          ELSE XSortSet(ModesOf(vals, maxCount))

\* the lists handed to multiMode: up to MaxModeLen values out of 1, 2, 3
ModeValues == {XInt(1), XInt(2), XInt(3)}
ModeLists == SeqsUpTo(ModeValues, MaxModeLen)

MultiModeInit ==
  /\ PageInit
  /\ AdjIdle
  /\ callPc = "input"
  /\ callArgs \in {[fn |-> "multiMode", values |-> l] : l \in ModeLists}
  /\ callRet = NoReturn

\* modes = multiMode(values)
CallMultiMode ==
  /\ callPc = "input"
  /\ callArgs.fn = "multiMode"
  /\ callPc' = "returned"
  /\ callRet' = [isNull |-> FALSE, modes |-> multiMode(callArgs.values)]
  /\ UNCHANGED <<callArgs, pageVars, adjVars>>

MultiModeNext == CallMultiMode

SpecMultiMode == MultiModeInit /\ [][MultiModeNext]_vars

MultiModeReturned == callPc = "returned" /\ callArgs.fn = "multiMode"

Occurrences(list, v) == Cardinality({i \in 1..Len(list) : list[i] = v})

\* C20: multiMode returns the empty list for an empty input and when no value
\* occurs more than once; otherwise it returns, each once and in ascending
\* order, exactly the values that occur as often as the most frequent one.
C20_MultiMode ==
  MultiModeReturned =>
    LET input == callArgs.values
        modes == callRet.modes
        repeats == \E i \in 1..Len(input) : Occurrences(input, input[i]) > 1
    IN IF ~repeats THEN modes = <<>>
       ELSE /\ \A r \in 1..(Len(modes) - 1) : RLt(modes[r], modes[r + 1])
            /\ \A v \in ModeValues :
                 (\E r \in 1..Len(modes) : modes[r] = v)
                   <=> /\ Occurrences(input, v) > 0
                       /\ \A u \in ModeValues : Occurrences(input, u) <= Occurrences(input, v)

C20_Witness ==
  /\ MultiModeReturned
  /\ callArgs.values = <<XInt(1), XInt(1), XInt(2), XInt(2), XInt(3)>>
  /\ callRet.modes = <<XInt(1), XInt(2)>>

(***************************************************************************)
(* applyTransform (descriptive.ts 79-95).                                  *)
(***************************************************************************)
Transforms == {"none", "log2", "log10"}
LogBase(transform) == IF transform = "log2" THEN 2 ELSE 10

RECURSIVE Pow(_, _)
Pow(b, k) == IF k = 0 THEN 1 ELSE b * Pow(b, k - 1)

RECURSIVE ILog(_, _)
\* the exponent k of n = base^k
ILog(base, n) == IF n <= 1 THEN 0 ELSE 1 + ILog(base, n \div base)

\* the numbers base^k and 1 / base^k, whose logarithm is a whole number
IsPowerOf(base, v) ==
  /\ v[2] # 0
  /\ v[1] > 0
  /\ \/ v[2] = 1 /\ Pow(base, ILog(base, v[1])) = v[1]
     \/ v[1] = 1 /\ Pow(base, ILog(base, v[2])) = v[2]

\* Math.log2(v), Math.log10(v): NaN below zero, -Infinity at zero; the finite
\* positive arguments are powers of the base, where the result is exact
MathLog(base, v) ==
  IF XIsNaN(v) THEN NaN
  ELSE IF v = PosInf THEN PosInf
  ELSE IF XLt(v, RZero) THEN NaN
  ELSE IF v = RZero THEN NegInf
  ELSE IF v[2] = 1 THEN XInt(ILog(base, v[1]))
  ELSE XInt(-ILog(base, v[2]))

NoWarning == "null"
LogWarning == "Log transformation applied; zero/negative values excluded or adjusted."

\* the condition under which a value's logarithm is pushed (lines 84-91)
IsTransformedAlways(v, allowNonPositive) == TRUE

IsTransformed(v, allowNonPositive) ==
  IF XLe(v, RZero) /\ ~allowNonPositive THEN FALSE
  ELSE XLt(RZero, v) \/ allowNonPositive

applyTransformDescriptive(vals, transform, allowNonPositive) ==
  IF transform = "none" THEN [values |-> vals, warning |-> NoWarning, excluded |-> <<>>]
  ELSE LET excluded == SelectSeq(vals, LAMBDA v : XLe(v, RZero))
           kept == SelectSeq(vals, LAMBDA v : IsTransformed(v, allowNonPositive))
           transformed == [i \in 1..Len(kept) |-> MathLog(LogBase(transform), kept[i])]
       IN [values |-> transformed,
           warning |-> IF Len(excluded) > 0 THEN LogWarning ELSE NoWarning,
           excluded |-> excluded]

\* the numbers handed to applyTransform: negative, zero, and powers of the base
TransformInputs(transform) ==
  IF transform = "log2" THEN {XInt(-1), XInt(0), XInt(1), XInt(2), XInt(4)}
  ELSE IF transform = "log10" THEN {XInt(-1), XInt(0), XInt(1), XInt(10), XInt(100)}
  ELSE {XInt(-1), XInt(0), XInt(1), XInt(2)}

TransformInit ==
  /\ PageInit
  /\ AdjIdle
  /\ callPc = "input"
  /\ callArgs \in {[fn |-> "applyTransform", values |-> l, transform |-> t, allowNonPositive |-> a] :
                     l \in UNION {SeqsUpTo(TransformInputs(u), MaxTransformLen) : u \in Transforms},
                     t \in Transforms, a \in BOOLEAN}
  /\ \A i \in 1..Len(callArgs.values) : callArgs.values[i] \in TransformInputs(callArgs.transform)
  /\ callRet = NoReturn

\* applyTransform(values, transform, allowNonPositive)
CallApplyTransform ==
  /\ callPc = "input"
  /\ callArgs.fn = "applyTransform"
  /\ callPc' = "returned"
  /\ callRet' = [isNull |-> FALSE,
                 result |-> applyTransformDescriptive(callArgs.values, callArgs.transform,
                                                      callArgs.allowNonPositive)]
  /\ UNCHANGED <<callArgs, pageVars, adjVars>>

TransformNext == CallApplyTransform

SpecTransform == TransformInit /\ [][TransformNext]_vars

TransformReturned == callPc = "returned" /\ callArgs.fn = "applyTransform"

Positives(list) == SelectSeq(list, LAMBDA v : v[1] > 0)
NonPositives(list) == SelectSeq(list, LAMBDA v : v[1] <= 0)

\* C12: applyTransform with log2 or log10 and allowNonPositive = false returns
\* the logarithms of the strictly positive inputs in input order and puts
\* exactly the non-positive inputs in excluded, so the two lengths add up to
\* the input length; the warning is non-null exactly when something was
\* excluded; with transform none the values come back unchanged, with no
\* warning and nothing excluded.
C12_ApplyTransform ==
  TransformReturned =>
    LET input == callArgs.values
        out == callRet.result
        base == LogBase(callArgs.transform)
    IN IF callArgs.transform = "none"
       THEN out.values = input /\ out.warning = NoWarning /\ out.excluded = <<>>
       ELSE ~callArgs.allowNonPositive =>
              /\ Len(out.values) = Len(Positives(input))
              /\ \A i \in 1..Len(out.values) :
                   /\ out.values[i][2] = 1
                   /\ out.values[i][1] >= 0
                   /\ Pow(base, out.values[i][1]) = Positives(input)[i][1]
              /\ out.excluded = NonPositives(input)
              /\ Len(out.values) + Len(out.excluded) = Len(input)
              /\ (out.warning # NoWarning) <=> (Len(out.excluded) > 0)

C12_Witness ==
  /\ TransformReturned
  /\ callArgs.transform = "log2"
  /\ ~callArgs.allowNonPositive
  /\ callArgs.values = <<XInt(1), XInt(0), XInt(-1), XInt(4)>>
  /\ callRet.result.values = <<XInt(0), XInt(2)>>
  /\ callRet.result.excluded = <<XInt(0), XInt(-1)>>
  /\ callRet.result.warning = LogWarning

(***************************************************************************)
(* The rows of the descriptive page (RawRow, descriptive.ts 12-21) and     *)
(* sanitizeRows (page.tsx 2719-2746).                                      *)
(***************************************************************************)
\* value?: number when the cell held no finite number
Undefined == <<>>
\* bioRep?: string when the cell was empty
NoBioRep == ""

RowGroups == {"A", "B"}
\* the replicate ids in use, in ascending numeric order
ReplicateIds == <<"1", "2">>
BioReps == {NoBioRep} \cup {ReplicateIds[i] : i \in 1..Len(ReplicateIds)}

Row(id, g, b, v) == [rowId |-> id, group |-> g, bioRep |-> b, value |-> v]

\* parsePastedData gives row i the rowId i
RowsOver(valueSet, n) ==
  UNION {[1..k -> [group : RowGroups, bioRep : BioReps, value : valueSet]] : k \in 0..n}

WithRowIds(cells) ==
  [i \in 1..Len(cells) |-> Row(i, cells[i].group, cells[i].bioRep, cells[i].value)]

MissingHandlings == {"ignore", "drop-replicate"}

\* r.value === undefined || Number.isNaN(r.value)
IsMissing(r) == r.value = Undefined \/ r.value = NaN

\* row.bioRep || `row-${row.rowId}`
SanitizeKey(r) ==
  IF r.bioRep # NoBioRep THEN [bioRep |-> r.bioRep, rowId |-> 0]
  ELSE [bioRep |-> NoBioRep, rowId |-> r.rowId]

RECURSIVE Flatten(_)
Flatten(lists) == IF lists = <<>> THEN <<>> ELSE Head(lists) \o Flatten(Tail(lists))

\* Object.values(groupedByBio): the buckets of the integer-like keys in
\* ascending order, then those of the other keys in insertion order
SanitizeBuckets(rows) ==
  LET idKeys == [i \in 1..Len(ReplicateIds) |-> [bioRep |-> ReplicateIds[i], rowId |-> 0]]
      rowKeys == [i \in 1..Len(rows) |-> [bioRep |-> NoBioRep, rowId |-> rows[i].rowId]]
      keys == idKeys \o rowKeys
      bucket(k) == SelectSeq(rows, LAMBDA r : SanitizeKey(r) = k)
  IN SelectSeq([i \in 1..Len(keys) |-> bucket(keys[i])], LAMBDA items : items # <<>>)

HasMissing(items) == \E i \in 1..Len(items) : IsMissing(items[i])

sanitizeRows(rows, missingHandling) ==
  IF missingHandling = "ignore"
  THEN [usable |-> SelectSeq(rows, LAMBDA r : ~IsMissing(r)),
        removed |-> SelectSeq(rows, IsMissing)]
  ELSE LET buckets == SanitizeBuckets(rows)
       IN [usable |-> Flatten(SelectSeq(buckets, LAMBDA items : ~HasMissing(items))),
           removed |-> Flatten(SelectSeq(buckets, HasMissing))]

SanitizeInit ==
  /\ PageInit
  /\ AdjIdle
  /\ callPc = "input"
  /\ callArgs \in {[fn |-> "sanitizeRows", rows |-> WithRowIds(c), missingHandling |-> h] :
                     c \in RowsOver({Undefined, XInt(1)}, MaxSanitizeRows),
                     h \in MissingHandlings}
  /\ callRet = NoReturn

\* const { usable, removed } = sanitizeRows(parsedRows, missingHandling)
CallSanitizeRows ==
  /\ callPc = "input"
  /\ callArgs.fn = "sanitizeRows"
  /\ callPc' = "returned"
  /\ callRet' = [isNull |-> FALSE, result |-> sanitizeRows(callArgs.rows, callArgs.missingHandling)]
  /\ UNCHANGED <<callArgs, pageVars, adjVars>>

SanitizeNext == CallSanitizeRows

SpecSanitize == SanitizeInit /\ [][SanitizeNext]_vars

SanitizeReturned == callPc = "returned" /\ callArgs.fn = "sanitizeRows"

Elements(list) == {list[i] : i \in 1..Len(list)}

\* usable and removed hold every input row exactly once between them
SanitizePartition ==
  SanitizeReturned =>
    LET out == callRet.result
    IN /\ Elements(out.usable) \cup Elements(out.removed) = Elements(callArgs.rows)
       /\ Elements(out.usable) \cap Elements(out.removed) = {}
       /\ Len(out.usable) + Len(out.removed) = Len(callArgs.rows)

\* under ignore a row is removed exactly when its own value is missing
SanitizeIgnoreRule ==
  (SanitizeReturned /\ callArgs.missingHandling = "ignore") =>
    \A r \in Elements(callArgs.rows) :
      (r \in Elements(callRet.result.removed)) <=> (r.value = Undefined)

\* the rows of the biological replicate that owns row r
OwningReplicate(rows, r) ==
  {s \in Elements(rows) :
     \/ s = r
     \/ s.group = r.group /\ r.bioRep # NoBioRep /\ s.bioRep = r.bioRep}

SanitizeDropRule ==
  (SanitizeReturned /\ callArgs.missingHandling = "drop-replicate") =>
    \A r \in Elements(callArgs.rows) :
      (r \in Elements(callRet.result.removed))
        <=> (\E s \in OwningReplicate(callArgs.rows, r) : s.value = Undefined)

\* C15: usable and removed partition the input rows; under ignore a row is
\* removed iff its own value is missing; under drop-replicate a row is removed
\* iff some row of its owning biological replicate (same group, same replicate
\* id; a row without an id is its own replicate) has a missing value.
C15_SanitizeRows == SanitizePartition /\ SanitizeIgnoreRule /\ SanitizeDropRule

(***************************************************************************)
(* Arithmetic on the extended numbers, as IEEE doubles combine NaN and the *)
(* infinities; finite results are exact.                                   *)
(***************************************************************************)
XRat(n, d) == IF d < 0 THEN Rat(-n, -d) ELSE Rat(n, d)
XNeg(x) == <<-x[1], x[2]>>
XSign(x) == IF x[1] > 0 THEN 1 ELSE IF x[1] < 0 THEN -1 ELSE 0
XInfinite(x) == x = PosInf \/ x = NegInf
XInf(sign) == IF sign > 0 THEN PosInf ELSE NegInf

XAdd(x, y) ==
  IF XIsNaN(x) \/ XIsNaN(y) THEN NaN
  ELSE IF XInfinite(x) /\ XInfinite(y) THEN (IF x = y THEN x ELSE NaN)
  ELSE IF XInfinite(x) THEN x
  ELSE IF XInfinite(y) THEN y
  ELSE XRat(x[1] * y[2] + y[1] * x[2], x[2] * y[2])

XSub(x, y) == XAdd(x, XNeg(y))

XMul(x, y) ==
  IF XIsNaN(x) \/ XIsNaN(y) THEN NaN
  ELSE IF XInfinite(x) \/ XInfinite(y)
       THEN (IF XSign(x) * XSign(y) = 0 THEN NaN ELSE XInf(XSign(x) * XSign(y)))
  ELSE XRat(x[1] * y[1], x[2] * y[2])

XDiv(x, y) ==
  IF XIsNaN(x) \/ XIsNaN(y) THEN NaN
  ELSE IF XInfinite(x) /\ XInfinite(y) THEN NaN
  ELSE IF XInfinite(x) THEN XInf(IF XSign(y) < 0 THEN -XSign(x) ELSE XSign(x))
  ELSE IF XInfinite(y) THEN RZero
  ELSE IF y = RZero THEN (IF x = RZero THEN NaN ELSE XInf(XSign(x)))
  ELSE XRat(x[1] * y[2], x[2] * y[1])

\* Math.abs
XAbs(x) == IF XSign(x) < 0 THEN XNeg(x) ELSE x

\* Math.max(x, y)
XMax(x, y) == IF XIsNaN(x) \/ XIsNaN(y) THEN NaN ELSE IF XLt(x, y) THEN y ELSE x

RECURSIVE ISqrtBetween(_, _, _)
\* the largest r in lo..hi with r * r <= n
ISqrtBetween(n, lo, hi) ==
  IF lo >= hi THEN lo
  ELSE LET mid == (lo + hi + 1) \div 2
       IN IF mid * mid <= n THEN ISqrtBetween(n, mid, hi) ELSE ISqrtBetween(n, lo, mid - 1)

\* Math.sqrt, rounded down to a multiple of 1 / SqrtScale
XSqrt(x) ==
  IF XIsNaN(x) \/ XSign(x) < 0 THEN NaN
  ELSE IF x = PosInf THEN PosInf
  ELSE LET n == (x[1] * SqrtScale * SqrtScale) \div x[2]
       IN XRat(ISqrtBetween(n, 0, SqrtCeiling), SqrtScale)

RECURSIVE XSum(_)
XSum(list) == IF list = <<>> THEN RZero ELSE XAdd(Head(list), XSum(Tail(list)))

\* the positions of a list of numbers without NaN in ascending order; the
\* sort is stable
XSortPos(list, i) ==
  1 + Cardinality({j \in 1..Len(list) :
        XLt(list[j], list[i]) \/ (list[j] = list[i] /\ j < i)})

\* [...list].sort((a, b) => a - b)
XSorted(list) ==
  [r \in 1..Len(list) |-> list[CHOOSE i \in 1..Len(list) : XSortPos(list, i) = r]]

(***************************************************************************)
(* The functions of simple-statistics and jstat that descriptive.ts        *)
(* imports (lines 1-2).                                                    *)
(***************************************************************************)
RECURSIVE SumFrom(_, _, _, _)
\* the loop of sum(x): Kahan-Babuska summation from position i on, with the
\* running total and the running correction
SumFrom(x, i, total, correction) ==
  IF i > Len(x) THEN XAdd(total, correction)
  ELSE LET transition == XAdd(total, x[i])
           step == IF XLe(XAbs(x[i]), XAbs(total))
                   THEN XAdd(XSub(total, transition), x[i])
                   ELSE XAdd(XSub(x[i], transition), total)
       IN SumFrom(x, i + 1, transition, XAdd(correction, step))

\* sum(x)
ssSum(x) == IF Len(x) = 0 THEN RZero ELSE SumFrom(x, 2, x[1], RZero)

\* mean(x): sum(x) / x.length
ssMean(x) == XDiv(ssSum(x), XInt(Len(x)))

\* sumNthPowerDeviations(x, 2)
SumSquaredDeviations(x) ==
  LET m == ssMean(x)
  IN XSum([i \in 1..Len(x) |-> XMul(XSub(x[i], m), XSub(x[i], m))])

\* variance(x): the squared deviations over n
ssVariance(x) == XDiv(SumSquaredDeviations(x), XInt(Len(x)))

\* sampleVariance(x): the squared deviations over n - 1
sampleVariance(x) == XDiv(SumSquaredDeviations(x), XInt(Len(x) - 1))

\* quantileSorted(x, p) for 0 < p < 1, p = pNum / pDen
quantileSorted(x, pNum, pDen) ==
  LET n == Len(x)
      whole == (n * pNum) % pDen = 0
      idx == (n * pNum) \div pDen
  IN IF ~whole THEN x[idx + 1]
     ELSE IF n % 2 = 0 THEN XDiv(XAdd(x[idx], x[idx + 1]), XInt(2))
     ELSE x[idx + 1]

\* median(x) = quantile(x, 0.5)
ssMedian(x) == quantileSorted(XSorted(x), 1, 2)

\* studentt.inv(0.975, df), to three decimals
StudentTInv975(df) ==
  LET table == <<12706, 4303, 3182, 2776, 2571, 2447, 2365, 2306>>
  IN XRat(IF df <= Len(table) THEN table[df] ELSE 1960, 1000)

(***************************************************************************)
(* computeGroupStats and computeTci (descriptive.ts 174-274).              *)
(***************************************************************************)
\* r.bioRep || `bio-${r.rowId}`
BioKey(r) ==
  IF r.bioRep # NoBioRep THEN [bioRep |-> r.bioRep, rowId |-> 0]
  ELSE [bioRep |-> NoBioRep, rowId |-> r.rowId]

\* Array.from(new Set(rows.map((r) => r.group))): in order of first appearance
GroupsOf(rows) ==
  LET firsts == SelectSeq([i \in 1..Len(rows) |-> i],
                          LAMBDA i : \A j \in 1..(i - 1) : rows[j].group # rows[i].group)
  IN [k \in 1..Len(firsts) |-> rows[firsts[k]].group]

\* Object.values(groupedByBio): one list of values per replicate key, the
\* integer-like keys first in ascending order, then the others as inserted
ValuesByBio(inGroup) ==
  LET idKeys == [i \in 1..Len(ReplicateIds) |-> [bioRep |-> ReplicateIds[i], rowId |-> 0]]
      rowKeys == [i \in 1..Len(inGroup) |-> [bioRep |-> NoBioRep, rowId |-> inGroup[i].rowId]]
      keys == idKeys \o rowKeys
      present(k) == \E i \in 1..Len(inGroup) : BioKey(inGroup[i]) = k
      members(k) == SelectSeq(inGroup, LAMBDA r : BioKey(r) = k /\ r.value # Undefined)
      bucket(k) == [i \in 1..Len(members(k)) |-> members(k)[i].value]
  IN [i \in 1..Len(SelectSeq(keys, present)) |-> bucket(SelectSeq(keys, present)[i])]

\* the values of a group before the transform (lines 188-205)
SampleValuesAveragedAlways(inGroup, replicateType, technicalHandling) ==
  LET buckets == SelectSeq(ValuesByBio(inGroup), LAMBDA arr : Len(arr) > 0)
  IN [i \in 1..Len(buckets) |-> ssMean(buckets[i])]

SampleValues(inGroup, replicateType, technicalHandling) ==
  IF replicateType = "biological"
  THEN LET present == SelectSeq(inGroup, LAMBDA r : r.value # Undefined /\ XFinite(r.value))
       IN [i \in 1..Len(present) |-> present[i].value]
  ELSE IF technicalHandling = "average"
       THEN LET buckets == SelectSeq(ValuesByBio(inGroup), LAMBDA arr : Len(arr) > 0)
            IN [i \in 1..Len(buckets) |-> ssMean(buckets[i])]
       ELSE Flatten(ValuesByBio(inGroup))

NoCi == [isNull |-> TRUE]

computeTci(mean, sem, nBio) ==
  IF nBio <= 1 THEN NoCi
  ELSE LET df == nBio - 1
           width == XMul(StudentTInv975(df), sem)
       IN [isNull |-> FALSE, low |-> XSub(mean, width), high |-> XAdd(mean, width), df |-> df]

\* the divisor under the standard error: Math.sqrt(nBio || 1)
SemDivisor(nBio, sorted) == XSqrt(XInt(IF nBio = 0 THEN 1 ELSE nBio))

\* ciMethod === "t95" && sorted.length > 1 ? computeTci(...) : null
CiFor(ciMethod, sorted, sem, nBio) ==
  IF ciMethod = "t95" /\ Len(sorted) > 1 THEN computeTci(ssMean(sorted), sem, nBio) ELSE NoCi

\* the positions (from 0) that sorted.reduce pushes to iqrFlags.indices
IsFlaggedLowOnly(v, lowerFence, upperFence) == XLt(v, lowerFence)

IsFlagged(v, lowerFence, upperFence) == XLt(v, lowerFence) \/ XLt(upperFence, v)

IqrFlags(sorted, lowerFence, upperFence) ==
  LET flagged == SelectSeq([i \in 1..Len(sorted) |-> i],
                           LAMBDA i : IsFlagged(sorted[i], lowerFence, upperFence))
      low == Cardinality({i \in 1..Len(sorted) : XLt(sorted[i], lowerFence)})
      high == Cardinality({i \in 1..Len(sorted) :
                 ~XLt(sorted[i], lowerFence) /\ XLt(upperFence, sorted[i])})
  IN [low |-> low, high |-> high, count |-> low + high,
      indices |-> [k \in 1..Len(flagged) |-> flagged[k] - 1]]

NoShapiro == [isNull |-> TRUE]

\* classifyNormality(w, n); !w holds for 0 and NaN
classifyNormality(w, n) ==
  IF w = RZero \/ XIsNaN(w) \/ n < 3 THEN "not reliable"
  ELSE IF XLe(<<97, 100>>, w) THEN "looks roughly normal"
  ELSE "possibly non-normal"

\* approxShapiro(values); the statistic of a sample with a finite non-zero sum
\* of squared deviations is the input shapiroW, since it takes inverseNormal
approxShapiro(vals, shapiroW) ==
  IF Len(vals) < 3 THEN NoShapiro
  ELSE LET sorted == XSorted(vals)
           mean == ssMean(sorted)
           ss == XSum([i \in 1..Len(sorted) |->
                         XMul(XSub(sorted[i], mean), XSub(sorted[i], mean))])
           W == IF XFinite(ss) THEN shapiroW ELSE NaN
       IN IF ss = RZero THEN [isNull |-> FALSE, W |-> ROne, label |-> "looks roughly normal"]
          ELSE [isNull |-> FALSE, W |-> W, label |-> classifyNormality(W, Len(sorted))]

\* { w: shapiro?.W ?? null, label: shapiro?.label ?? "not reliable" }
NormalityOf(shapiro) ==
  IF shapiro.isNull THEN [hasW |-> FALSE, w |-> RZero, label |-> "not reliable"]
  ELSE [hasW |-> TRUE, w |-> shapiro.W, label |-> shapiro.label]

\* the record pushed for a group whose transformed values are not empty
GroupRecord(group, inGroup, transformed, options, shapiroW) ==
  LET nBio == Cardinality({BioKey(inGroup[i]) : i \in 1..Len(inGroup)})
      nTech == Len(SelectSeq(inGroup, LAMBDA r : r.techRep # ""))
      sorted == XSorted(transformed)
      variance == IF Len(sorted) > 1
                  THEN (IF options.varianceConvention = "sample"
                        THEN sampleVariance(sorted) ELSE ssVariance(sorted))
                  ELSE RZero
      sd == XSqrt(XMax(variance, RZero))
      sem == XDiv(sd, SemDivisor(nBio, sorted))
      mean == ssMean(sorted)
      cv == IF mean = RZero THEN RZero ELSE XMul(XDiv(sd, XAbs(mean)), XInt(100))
      q1 == quantileSorted(sorted, 1, 4)
      q3 == quantileSorted(sorted, 3, 4)
      iqr == XSub(q3, q1)
      lowerFence == XSub(q1, XMul(options.iqrMultiplier, iqr))
      upperFence == XAdd(q3, XMul(options.iqrMultiplier, iqr))
  IN [group |-> group,
      nBio |-> nBio,
      nTech |-> nTech,
      mean |-> mean,
      median |-> ssMedian(sorted),
      modes |-> multiMode(sorted),
      sd |-> sd,
      variance |-> variance,
      sem |-> sem,
      cv |-> cv,
      min |-> sorted[1],
      max |-> sorted[Len(sorted)],
      range |-> XSub(sorted[Len(sorted)], sorted[1]),
      ci95 |-> CiFor(options.ciMethod, sorted, sem, nBio),
      normality |-> NormalityOf(approxShapiro(sorted, shapiroW)),
      iqrFlags |-> IqrFlags(sorted, lowerFence, upperFence),
      valuesUsed |-> sorted,
      iqrMultiplier |-> options.iqrMultiplier]

ExcludedWarning == "Excluded non-positive value(s) from log transform."

\* what groups.forEach does for one group: its locals, the warnings it
\* pushes and the record it pushes, if any
GroupPass(rows, options, shapiroW, group) ==
  LET inGroup == SelectSeq(rows, LAMBDA r : r.group = group)
      vals == SampleValues(inGroup, options.replicateType, options.technicalHandling)
      t == applyTransformDescriptive(vals, options.transform, options.allowNonPositiveLog)
  IN [group |-> group,
      values |-> vals,
      transformed |-> t.values,
      warnings |->
        (IF t.warning # NoWarning THEN <<[text |-> t.warning, count |-> 0]>> ELSE <<>>)
        \o (IF Len(t.excluded) > 0 /\ options.transform # "none" /\ ~options.allowNonPositiveLog
            THEN <<[text |-> ExcludedWarning, count |-> Len(t.excluded)]>> ELSE <<>>),
      pushed |-> IF Len(t.values) = 0 THEN <<>>
                 ELSE <<GroupRecord(group, inGroup, t.values, options, shapiroW)>>]

computeGroupStats(rows, options, shapiroW) ==
  LET groupList == GroupsOf(rows)
      passes == [k \in 1..Len(groupList) |-> GroupPass(rows, options, shapiroW, groupList[k])]
  IN [stats |-> Flatten([k \in 1..Len(passes) |-> passes[k].pushed]),
      warnings |-> Flatten([k \in 1..Len(passes) |-> passes[k].warnings]),
      locals |-> [k \in 1..Len(passes) |->
                    [group |-> passes[k].group, values |-> passes[k].values,
                     transformed |-> passes[k].transformed]]]

\* the usable rows handed to computeGroupStats: every value is finite, as
\* sanitizeRows leaves them; a row carries a techRep exactly when it carries
\* a bioRep
StatValues == {XInt(0), XInt(1), XInt(4)}
StatBioReps == {NoBioRep, ReplicateIds[1]}

StatRow(id, c) ==
  [rowId |-> id, group |-> c.group, bioRep |-> c.bioRep,
   techRep |-> IF c.bioRep = NoBioRep THEN "" ELSE "1", value |-> c.value]

\* up to MaxStatRows rows of any group, replicate and value
ShortRowLists ==
  LET cells == UNION {[1..k -> [group : RowGroups, bioRep : StatBioReps, value : StatValues]] :
                        k \in 0..MaxStatRows}
  IN {[i \in 1..Len(c) |-> StatRow(i, c[i])] : c \in cells}

\* OutlierRows rows of one group, each its own replicate, with values 1, 4
\* or 16 listed in ascending order
LongRowLists ==
  LET cells == {c \in [1..OutlierRows ->
                         [group : {"A"}, bioRep : {NoBioRep}, value : {XInt(1), XInt(4), XInt(16)}]] :
                  \A i \in 1..(OutlierRows - 1) : c[i].value[1] <= c[i + 1].value[1]}
  IN {[i \in 1..Len(c) |-> StatRow(i, c[i])] : c \in cells}

ReplicateModes ==
  {[replicateType |-> "biological", technicalHandling |-> "average"],
   [replicateType |-> "technical", technicalHandling |-> "average"],
   [replicateType |-> "technical", technicalHandling |-> "separate"]}

TransformChoices ==
  {[transform |-> "none", allowNonPositiveLog |-> FALSE],
   [transform |-> "log2", allowNonPositiveLog |-> FALSE],
   [transform |-> "log2", allowNonPositiveLog |-> TRUE]}

\* the page offers the multipliers 1.5 and 3 and always asks for t95
SummaryChoices ==
  {[varianceConvention |-> "sample", iqrMultiplier |-> <<3, 2>>, ciMethod |-> "t95"],
   [varianceConvention |-> "population", iqrMultiplier |-> <<3, 1>>, ciMethod |-> "t95"],
   [varianceConvention |-> "sample", iqrMultiplier |-> <<3, 2>>, ciMethod |-> "none"]}

\* the Shapiro-Wilk statistic that goes with a call: above, at and below the
\* threshold 0.97 of classifyNormality
ShapiroWFor(options) ==
  IF options.ciMethod = "none" THEN <<97, 100>>
  ELSE IF options.varianceConvention = "sample" THEN <<99, 100>>
  ELSE <<1, 2>>

ComputeOptions ==
  {[replicateType |-> m.replicateType, technicalHandling |-> m.technicalHandling,
    transform |-> t.transform, allowNonPositiveLog |-> t.allowNonPositiveLog,
    varianceConvention |-> s.varianceConvention, iqrMultiplier |-> s.iqrMultiplier,
    ciMethod |-> s.ciMethod] :
     m \in ReplicateModes, t \in TransformChoices, s \in SummaryChoices}

\* under a log transform the positive values of every group are powers of the
\* base, so that their logarithms are exact
LogExact(rows, options) ==
  options.transform # "none" =>
    \A g \in RowGroups :
      LET vals == SampleValues(SelectSeq(rows, LAMBDA r : r.group = g),
                               options.replicateType, options.technicalHandling)
      IN \A i \in 1..Len(vals) : vals[i] = RZero \/ IsPowerOf(LogBase(options.transform), vals[i])

GroupStatsInit ==
  /\ PageInit
  /\ AdjIdle
  /\ callPc = "input"
  /\ callArgs \in {[fn |-> "computeGroupStats", rows |-> r, options |-> o,
                      shapiroW |-> ShapiroWFor(o)] :
                     r \in ShortRowLists \cup LongRowLists, o \in ComputeOptions}
  /\ LogExact(callArgs.rows, callArgs.options)
  /\ callRet = NoReturn

\* computeGroupStats(usable, computeOpts)
CallComputeGroupStats ==
  /\ callPc = "input"
  /\ callArgs.fn = "computeGroupStats"
  /\ callPc' = "returned"
  /\ callRet' = [isNull |-> FALSE, result |-> computeGroupStats(callArgs.rows, callArgs.options,
                                                callArgs.shapiroW)]
  /\ UNCHANGED <<callArgs, pageVars, adjVars>>

GroupStatsNext == CallComputeGroupStats

SpecGroupStats == GroupStatsInit /\ [][GroupStatsNext]_vars

GroupStatsReturned == callPc = "returned" /\ callArgs.fn = "computeGroupStats"

StatsReturned == callRet.result.stats
RecordIndices == 1..Len(StatsReturned)
PassIndices == 1..Len(callRet.result.locals)
RowsOfGroup(g) == {r \in Elements(callArgs.rows) : r.group = g}

\* C11: every value in valuesUsed of every record that computeGroupStats
\* returns is a finite number, for every option combination, a log transform
\* with allowNonPositiveLog = true included.
C11_ValuesUsedFinite ==
  GroupStatsReturned =>
    \A j \in RecordIndices :
      \A i \in 1..Len(StatsReturned[j].valuesUsed) :
        /\ StatsReturned[j].valuesUsed[i] # NaN
        /\ StatsReturned[j].valuesUsed[i] # NegInf
        /\ StatsReturned[j].valuesUsed[i] # PosInf

\* the same when non-positive values are not allowed through
ValuesUsedFiniteWhenStrict ==
  (GroupStatsReturned
     /\ ~(callArgs.options.transform # "none" /\ callArgs.options.allowNonPositiveLog)) =>
    \A j \in RecordIndices :
      \A i \in 1..Len(StatsReturned[j].valuesUsed) : StatsReturned[j].valuesUsed[i][2] > 0

AllFinite(rec) == \A i \in 1..Len(rec.valuesUsed) : rec.valuesUsed[i][2] > 0

Largest(a, b) == IF a >= b THEN a ELSE b

CiSane(rec) ==
  /\ ~rec.ci95.isNull =>
       /\ XLe(rec.ci95.low, rec.mean)
       /\ XLe(rec.mean, rec.ci95.high)
       /\ rec.ci95.df = rec.nBio - 1
  /\ rec.sem = XDiv(rec.sd, XSqrt(XInt(Largest(rec.nBio, 1))))

\* C13: in every record whose ci95 is present, ci95.low <= mean <= ci95.high
\* and ci95.df = nBio - 1; and the standard error is sd / sqrt(max(nBio, 1)).
C13_CiSanity ==
  GroupStatsReturned => \A j \in RecordIndices : CiSane(StatsReturned[j])

\* the same for the records whose values are all finite
CiSanityOfFiniteRecords ==
  GroupStatsReturned =>
    \A j \in RecordIndices : AllFinite(StatsReturned[j]) => CiSane(StatsReturned[j])

\* a null ci95 whenever ciMethod is none or nBio <= 1
CiNullWhenNotAsked ==
  GroupStatsReturned =>
    \A j \in RecordIndices :
      (callArgs.options.ciMethod = "none" \/ StatsReturned[j].nBio <= 1)
        => StatsReturned[j].ci95.isNull

\* a non-null ci95 whenever ciMethod is t95 and nBio > 1
CiPresentWhenAsked ==
  GroupStatsReturned =>
    \A j \in RecordIndices :
      (callArgs.options.ciMethod = "t95" /\ StatsReturned[j].nBio > 1)
        => ~StatsReturned[j].ci95.isNull

\* C14: a group with a record has a non-null ci95 whenever ciMethod is t95 and
\* its nBio is greater than 1, and a null ci95 whenever ciMethod is none or
\* nBio <= 1.
C14_CiPresence == CiPresentWhenAsked /\ CiNullWhenNotAsked

\* the biological replicates of a group: the rows sharing an id, and every
\* row without an id on its own
ReplicatesOf(g) ==
  {{s \in RowsOfGroup(g) : s = r \/ (r.bioRep # NoBioRep /\ s.bioRep = r.bioRep)} :
     r \in RowsOfGroup(g)}

RECURSIVE SumOfRows(_)
SumOfRows(S) ==
  IF S = {} THEN 0
  ELSE LET r == CHOOSE x \in S : TRUE IN r.value[1] + SumOfRows(S \ {r})

\* v is the arithmetic mean of the values of the rows in S
IsMeanOf(v, S) == v[2] > 0 /\ v[1] * Cardinality(S) = v[2] * SumOfRows(S)

\* the list holds one entry per member of S: as many entries match a member
\* as there are members alike to it
OnePerMember(list, S, Matches(_, _), Alike(_, _)) ==
  /\ Len(list) = Cardinality(S)
  /\ \A m \in S :
       Cardinality({i \in 1..Len(list) : Matches(list[i], m)})
         = Cardinality({n \in S : Alike(m, n)})

SameMean(R, T) == SumOfRows(R) * Cardinality(T) = SumOfRows(T) * Cardinality(R)

\* C16: with replicateType technical and technicalHandling average the values
\* of a group are one per biological replicate, each the mean of the
\* replicate's rows; in every other mode they are one per row; nBio is the
\* number of distinct biological replicates of the group.
C16_ReplicateHandling ==
  GroupStatsReturned =>
    /\ \A k \in PassIndices :
         LET pass == callRet.result.locals[k]
         IN IF callArgs.options.replicateType = "technical"
               /\ callArgs.options.technicalHandling = "average"
            THEN OnePerMember(pass.values, ReplicatesOf(pass.group), IsMeanOf, SameMean)
            ELSE OnePerMember(pass.values, RowsOfGroup(pass.group),
                              LAMBDA v, r : v = r.value,
                              LAMBDA r, t : r.value = t.value)
    /\ \A j \in RecordIndices :
         StatsReturned[j].nBio = Cardinality(ReplicatesOf(StatsReturned[j].group))

C16_Witness ==
  /\ GroupStatsReturned
  /\ callArgs.options.replicateType = "technical"
  /\ callArgs.options.technicalHandling = "average"
  /\ callArgs.options.transform = "none"
  /\ Len(callArgs.rows) = 2
  /\ callArgs.rows[1].group = "A" /\ callArgs.rows[2].group = "A"
  /\ callArgs.rows[1].bioRep = "1" /\ callArgs.rows[2].bioRep = "1"
  /\ callArgs.rows[1].value = XInt(1) /\ callArgs.rows[2].value = XInt(4)
  /\ callRet.result.locals[1].values = <<<<5, 2>>>>
  /\ StatsReturned[1].nBio = 1

Copies(list, v) == Cardinality({i \in 1..Len(list) : list[i] = v})

\* C17: iqrFlags.count = low + high = the number of flagged indices; every
\* flagged index is a position of valuesUsed whose value lies strictly
\* outside [q1 - k * IQR, q3 + k * IQR]; valuesUsed holds every transformed
\* value of the group, flagged or not.
C17_OutliersFlaggedNotRemoved ==
  GroupStatsReturned =>
    \A j \in RecordIndices :
      LET rec == StatsReturned[j]
          used == rec.valuesUsed
          q1 == quantileSorted(used, 1, 4)
          q3 == quantileSorted(used, 3, 4)
          reach == XMul(rec.iqrMultiplier, XSub(q3, q1))
          pass == CHOOSE k \in PassIndices : callRet.result.locals[k].group = rec.group
          transformed == callRet.result.locals[pass].transformed
      IN /\ rec.iqrFlags.count = rec.iqrFlags.low + rec.iqrFlags.high
         /\ rec.iqrFlags.count = Len(rec.iqrFlags.indices)
         /\ \A n \in 1..Len(rec.iqrFlags.indices) :
              LET idx == rec.iqrFlags.indices[n]
              IN /\ idx \in 0..(Len(used) - 1)
                 /\ \/ XLt(used[idx + 1], XSub(q1, reach))
                    \/ XLt(XAdd(q3, reach), used[idx + 1])
         /\ Len(used) = Len(transformed)
         /\ \A i \in 1..Len(transformed) : Copies(used, transformed[i]) = Copies(transformed, transformed[i])

C17_Witness ==
  /\ GroupStatsReturned
  /\ callArgs.options.transform = "none"
  /\ Len(StatsReturned) = 1
  /\ StatsReturned[1].valuesUsed = <<XInt(1), XInt(1), XInt(4), XInt(4), XInt(16)>>
  /\ StatsReturned[1].iqrFlags = [low |-> 0, high |-> 1, count |-> 1, indices |-> <<4>>]

(***************************************************************************)
(* The Kaplan-Meier curve of one group (page.tsx 2251-2265). While the     *)
(* loop runs, callRet holds the locals of the callback.                    *)
(***************************************************************************)
\* the observations of a group: the survival memo stores status as 0 or 1
\* (page.tsx 1166)
Observations == [time : 1..MaxTime, status : {0, 1}]
SeriesLists == UNION {[1..k -> Observations] : k \in 0..MaxSeries}

\* .slice().sort((a, b) => a.time - b.time), a stable sort
SeriesSorted(series) ==
  LET pos(i) == 1 + Cardinality({j \in 1..Len(series) :
                      \/ series[j].time < series[i].time
                      \/ series[j].time = series[i].time /\ j < i})
  IN [r \in 1..Len(series) |-> series[CHOOSE i \in 1..Len(series) : pos(i) = r]]

\* 1 - 1 / atRisk
KmFactorAbove(atRisk) == XRat(atRisk + 1, atRisk)

KmFactor(atRisk) == XRat(atRisk - 1, atRisk)

KmInit ==
  /\ PageInit
  /\ AdjIdle
  /\ callPc = "input"
  /\ callArgs \in {[fn |-> "kmCurve", series |-> s] : s \in SeriesLists}
  /\ callRet = NoReturn

\* lines 2251-2255: sort the series, atRisk = series.length, surv = 1, the
\* curve starts at (0, 1)
KmBegin ==
  /\ callPc = "input"
  /\ callArgs.fn = "kmCurve"
  /\ callPc' = "loop"
  /\ callRet' = [isNull |-> FALSE,
                 series |-> SeriesSorted(callArgs.series),
                 next |-> 1,
                 atRisk |-> Len(callArgs.series),
                 surv |-> ROne,
                 curve |-> <<[x |-> 0, y |-> ROne]>>,
                 censorPoints |-> <<>>]
  /\ UNCHANGED <<callArgs, pageVars, adjVars>>

\* lines 2256-2263: one pass of series.forEach
KmPoint ==
  /\ callPc = "loop"
  /\ callArgs.fn = "kmCurve"
  /\ callRet.next <= Len(callRet.series)
  /\ LET pt == callRet.series[callRet.next]
         isEvent == pt.status = 1 /\ callRet.atRisk > 0
         surv == IF isEvent THEN XMul(callRet.surv, KmFactor(callRet.atRisk)) ELSE callRet.surv
     IN callRet' = [callRet EXCEPT
                      !.next = @ + 1,
                      !.surv = surv,
                      !.censorPoints = IF ~isEvent /\ pt.status = 0
                                       THEN Append(@, [x |-> pt.time, y |-> surv]) ELSE @,
                      !.atRisk = @ - 1,
                      !.curve = Append(@, [x |-> pt.time, y |-> surv])]
  /\ UNCHANGED <<callPc, callArgs, pageVars, adjVars>>

\* lines 2264-2265: datasets.push once the series is exhausted
KmEnd ==
  /\ callPc = "loop"
  /\ callArgs.fn = "kmCurve"
  /\ callRet.next > Len(callRet.series)
  /\ callPc' = "returned"
  /\ UNCHANGED <<callArgs, callRet, pageVars, adjVars>>

KmNext == KmBegin \/ KmPoint \/ KmEnd

SpecKM == KmInit /\ [][KmNext]_vars

KmRunning == callArgs.fn = "kmCurve" /\ callPc \in {"loop", "returned"}

\* the curve starts at 1, never rises and stays within [0, 1]; the at-risk
\* count is never negative
KmCurveSound ==
  KmRunning =>
    /\ callRet.curve[1].y = ROne
    /\ \A i \in 1..Len(callRet.curve) :
         RLe(RZero, callRet.curve[i].y) /\ RLe(callRet.curve[i].y, ROne)
    /\ \A i \in 1..(Len(callRet.curve) - 1) :
         RLe(callRet.curve[i + 1].y, callRet.curve[i].y)
    /\ callRet.atRisk >= 0

\* one observation has just been handled
KmObserved == KmRunning /\ callPc' = "loop" /\ callRet'.next = callRet.next + 1

\* each observation lowers the at-risk count by exactly one; a censored one
\* adds one mark at the current survival and leaves the survival as it was
KmObservation ==
  KmObserved =>
    LET pt == callRet.series[callRet.next]
    IN /\ callRet'.atRisk = callRet.atRisk - 1
       /\ pt.status = 0 =>
            /\ callRet'.surv = callRet.surv
            /\ callRet'.censorPoints = Append(callRet.censorPoints, [x |-> pt.time, y |-> callRet.surv])
            /\ callRet'.curve[Len(callRet'.curve)].y = callRet.curve[Len(callRet.curve)].y
       /\ pt.status = 1 => callRet'.censorPoints = callRet.censorPoints

\* C18: along the Kaplan-Meier curve of a group the survival starts at 1,
\* never increases and stays within [0, 1]; a censored observation adds a
\* censoring mark without changing survival; the at-risk count decreases by
\* exactly 1 after each observation whatever its status, and is never
\* negative.
C18_KaplanMeier == [][KmObservation]_vars /\ []KmCurveSound

C18_Witness ==
  /\ callArgs.fn = "kmCurve"
  /\ callPc = "returned"
  /\ callRet.atRisk = 0
  /\ callRet.curve = <<[x |-> 0, y |-> ROne], [x |-> 1, y |-> <<1, 2>>], [x |-> 2, y |-> <<1, 2>>]>>
  /\ callRet.censorPoints = <<[x |-> 2, y |-> <<1, 2>>]>>

(***************************************************************************)
(* logRankTest (page.tsx 436-464).                                         *)
(***************************************************************************)
\* Object.keys(groups).filter((k) => groups[k].length > 0)
LogRankKeys(grouped) == SelectSeq(GroupOrder, LAMBDA k : Len(grouped[k]) > 0)

\* keys.length < 2 (line 438)
TooFewGroups(grouped) == Len(LogRankKeys(grouped)) < 2

\* the observations of group k at time t
AtTime(grouped, k, t) == SelectSeq(grouped[k], LAMBDA r : r.time = t)
EventsAtTime(grouped, k, t) == Len(SelectSeq(grouped[k], LAMBDA r : r.time = t /\ r.status = 1))

\* a pass that squares the first group's observed minus expected count
ChiStepFirstGroup(grouped, keys, atRisk, t) ==
  LET d == XInt(XSum([i \in 1..Len(keys) |-> XInt(EventsAtTime(grouped, keys[i], t))])[1])
      n == XSum([i \in 1..Len(keys) |-> XInt(atRisk[keys[i]])])
      first == XSub(XInt(EventsAtTime(grouped, keys[1], t)),
                    XMul(XDiv(XInt(atRisk[keys[1]]), n), d))
  IN IF n = RZero THEN RZero ELSE XMul(first, first)

\* what one pass of events.forEach adds to chi at time t (lines 447-458)
ChiStep(grouped, keys, atRisk, t) ==
  LET d == XInt(XSum([i \in 1..Len(keys) |-> XInt(EventsAtTime(grouped, keys[i], t))])[1])
      n == XSum([i \in 1..Len(keys) |-> XInt(atRisk[keys[i]])])
      share(k) == XDiv(XInt(atRisk[k]), n)
      below == IF n = ROne THEN ROne ELSE XSub(n, ROne)
      spread == XDiv(XMul(d, XSub(n, d)), below)
      varRow(k) == XMul(XMul(share(k), XSub(ROne, share(k))), spread)
      total == XSum([i \in 1..Len(keys) |-> varRow(keys[i])])
      sumVar == IF total = RZero THEN ROne ELSE total
      OminusE(k) == XSub(XInt(EventsAtTime(grouped, k, t)), XMul(share(k), d))
      contrib == XSum([i \in 1..Len(keys) |-> OminusE(keys[i])])
  IN IF n = RZero THEN RZero ELSE XDiv(XMul(contrib, contrib), sumVar)

RECURSIVE ChiFrom(_, _, _, _)
\* the passes of events.forEach from time t on; the splice of line 460 leaves
\* one pass per distinct time
ChiFrom(grouped, keys, atRisk, t) ==
  IF t > MaxTime THEN RZero
  ELSE IF \A i \in 1..Len(keys) : AtTime(grouped, keys[i], t) = <<>>
       THEN ChiFrom(grouped, keys, atRisk, t + 1)
       ELSE XAdd(ChiStep(grouped, keys, atRisk, t),
                 ChiFrom(grouped, keys,
                         [k \in DOMAIN atRisk |-> atRisk[k] - Len(AtTime(grouped, k, t))],
                         t + 1))

\* the value returned, without p = 1 - jStat.chisquare.cdf(chi, df)
logRankTest(grouped) ==
  LET keys == LogRankKeys(grouped)
  IN IF TooFewGroups(grouped) THEN NoReturn
     ELSE [isNull |-> FALSE,
           chi |-> ChiFrom(grouped, keys, [k \in DOMAIN grouped |-> Len(grouped[k])], 1),
           df |-> Len(keys) - 1]

\* the first group has up to MaxLogRankN observations, the others at most one
LogRankInputs ==
  LET long == UNION {[1..k -> Observations] : k \in 0..MaxLogRankN}
      short == UNION {[1..k -> Observations] : k \in 0..1}
  IN {[A |-> a, B |-> b, C |-> c] : a \in long, b \in short, c \in short}

LogRankInit ==
  /\ PageInit
  /\ AdjIdle
  /\ callPc = "input"
  /\ callArgs \in {[fn |-> "logRankTest", groups |-> g] : g \in LogRankInputs}
  /\ callRet = NoReturn

\* const logrank = logRankTest(grouped)
CallLogRankTest ==
  /\ callPc = "input"
  /\ callArgs.fn = "logRankTest"
  /\ callPc' = "returned"
  /\ callRet' = logRankTest(callArgs.groups)
  /\ UNCHANGED <<callArgs, pageVars, adjVars>>

LogRankNext == CallLogRankTest

SpecLogRank == LogRankInit /\ [][LogRankNext]_vars

LogRankReturned == callPc = "returned" /\ callArgs.fn = "logRankTest"

NonEmptyArms == {k \in DOMAIN callArgs.groups : callArgs.groups[k] # <<>>}
ArmsWithEvent ==
  {k \in DOMAIN callArgs.groups :
     \E i \in 1..Len(callArgs.groups[k]) : callArgs.groups[k][i].status = 1}

\* a result has df = number of non-empty groups - 1, and fewer than two
\* non-empty groups give null
LogRankDf ==
  LogRankReturned =>
    /\ Cardinality(NonEmptyArms) < 2 => callRet.isNull
    /\ ~callRet.isNull => callRet.df = Cardinality(NonEmptyArms) - 1

\* C19: logRankTest returns null unless at least two groups each contain at
\* least one event; in particular it returns null when some group consists
\* only of censored observations; a result has df = number of non-empty
\* groups - 1.
C19_LogRankNeedsEvents ==
  LogRankReturned =>
    /\ ~callRet.isNull => Cardinality(ArmsWithEvent) >= 2
    /\ (NonEmptyArms \ ArmsWithEvent # {}) => callRet.isNull
    /\ ~callRet.isNull => callRet.df = Cardinality(NonEmptyArms) - 1

NonParametric ==
  {"Wilcoxon signed-rank", "Mann-Whitney U", "Kruskal-Wallis with Dunn post-hoc (Holm-adjusted)"}

\* the transformed normality is the raw normality, so the advisory condition
\* is false and no advisory outcome is decided
NoAdvisory ==
  /\ ~diagnostics.isNull =>
       /\ diagnostics.transformedNormal = diagnostics.normal
       /\ ~TransformImproved
  /\ ~decision.isNull => decision.test \notin Advisory

\* C29 as stated: no advisory outcome is reachable, and every non-normal data
\* set with at least two groups is decided by Wilcoxon, Mann-Whitney U or
\* Kruskal-Wallis.
C29_NonNormalAlwaysNonParametric ==
  /\ NoAdvisory
  /\ (~diagnostics.isNull /\ ~NormalityHolds /\ NonEmptyGroups >= 2) =>
       (~decision.isNull /\ decision.test \in NonParametric)

\* C29, amended: no advisory outcome is reachable, and every non-normal data
\* set with at least two groups, a mapped response column and no
\* dose-response flag is decided by Wilcoxon, Mann-Whitney U or
\* Kruskal-Wallis.
C29_NoAdvisoryOutcome ==
  /\ NoAdvisory
  /\ (~diagnostics.isNull /\ ~NormalityHolds /\ NonEmptyGroups >= 2
        /\ responseColumn /\ ~Flagged) =>
       (~decision.isNull /\ decision.test \in NonParametric)

C29_Witness ==
  /\ ~diagnostics.isNull
  /\ Below05(diagnostics.normal)
  /\ diagnostics.transformedNormal = diagnostics.normal
  /\ NonEmptyGroups = 2
  /\ independence = "independent"
  /\ ~Flagged
  /\ ~decision.isNull
  /\ decision.test = "Mann-Whitney U"

\* the observations of group k not yet passed at time t
StillAtRisk(k, t) ==
  Cardinality({i \in 1..Len(callArgs.groups[k]) : callArgs.groups[k][i].time >= t})
DeathsAt(k, t) ==
  Cardinality({i \in 1..Len(callArgs.groups[k]) :
                 callArgs.groups[k][i].time = t /\ callArgs.groups[k][i].status = 1})

RECURSIVE Total(_, _, _)
\* the sum of F[k] over the groups in S, as a rational num / den
Total(S, num, den) ==
  IF S = {} THEN <<0, 1>>
  ELSE LET k == CHOOSE x \in S : TRUE
           rest == Total(S \ {k}, num, den)
       IN Rat(num[k] * rest[2] + rest[1] * den[k], den[k] * rest[2])

\* C30: at every distinct time the observed counts of the groups sum to d and
\* the expected counts sum to d, so the observed-minus-expected counts sum to
\* zero and the chi-square statistic returned is 0 for every input.
C30_LogRankChiZero ==
  (LogRankReturned /\ ~callRet.isNull) =>
    /\ \A t \in 1..MaxTime :
         LET pooled == UNION {{<<k, i>> : i \in 1..Len(callArgs.groups[k])} : k \in NonEmptyArms}
             d == Cardinality({e \in pooled :
                     /\ callArgs.groups[e[1]][e[2]].time = t
                     /\ callArgs.groups[e[1]][e[2]].status = 1})
             n == Total(NonEmptyArms, [k \in NonEmptyArms |-> StillAtRisk(k, t)],
                        [k \in NonEmptyArms |-> 1])[1]
         IN n > 0 =>
              /\ Total(NonEmptyArms, [k \in NonEmptyArms |-> DeathsAt(k, t)],
                       [k \in NonEmptyArms |-> 1]) = <<d, 1>>
              /\ Total(NonEmptyArms, [k \in NonEmptyArms |-> StillAtRisk(k, t) * d],
                       [k \in NonEmptyArms |-> n]) = <<d, 1>>
    /\ callRet.chi = RZero

C30_Witness ==
  /\ LogRankReturned
  /\ callArgs.groups.A = <<[time |-> 1, status |-> 1], [time |-> 1, status |-> 1]>>
  /\ callArgs.groups.B = <<[time |-> 2, status |-> 0]>>
  /\ callArgs.groups.C = <<>>
  /\ ~callRet.isNull
  /\ callRet.chi = RZero

AllIdentical(list) == \A i, j \in 1..Len(list) : list[i] = list[j]

\* the statistic W of the claim: defined for a sample of at least three values
\* that are not all identical
WDefined(rec) == Len(rec.valuesUsed) >= 3 /\ ~AllIdentical(rec.valuesUsed)

NormalityLabelled(rec) ==
  LET label == rec.normality.label
      enough == Len(rec.valuesUsed) >= 3
      high == XLe(<<97, 100>>, rec.normality.w)
  IN /\ label = "looks roughly normal" <=> (enough /\ WDefined(rec) /\ high)
     /\ label = "possibly non-normal" <=> (enough /\ WDefined(rec) /\ ~high)
     /\ (~enough \/ ~WDefined(rec)) => label = "not reliable"

\* C28: the normality label of a record is 'looks roughly normal' exactly when
\* the sample has n >= 3 values and a defined W >= 0.97, 'possibly non-normal'
\* exactly when n >= 3 and W is defined and < 0.97, and 'not reliable' whenever
\* n < 3 or W is undefined (all values identical).
C28_NormalityLabel ==
  GroupStatsReturned => \A j \in RecordIndices : NormalityLabelled(StatsReturned[j])

\* the same for the records whose values are not all identical
NormalityLabelOfSpreadSamples ==
  GroupStatsReturned =>
    \A j \in RecordIndices :
      ~AllIdentical(StatsReturned[j].valuesUsed) => NormalityLabelled(StatsReturned[j])

(***************************************************************************)
(* computeFoldChanges (descriptive.ts 276-287). Of a GroupStats record it  *)
(* reads group and mean.                                                   *)
(***************************************************************************)
NoLog == [isNull |-> TRUE]

\* the entry mapped from the record g against the reference record ref
FoldEntry(g, ref, reference) ==
  LET percentChange == XMul(XDiv(XSub(g.mean, ref.mean), ref.mean), XInt(100))
      foldChange == XDiv(g.mean, ref.mean)
  IN [group |-> g.group, reference |-> reference,
      percentChange |-> percentChange,
      foldChange |-> foldChange,
      log2FoldChange |-> IF XLt(RZero, foldChange)
                         THEN [isNull |-> FALSE, value |-> MathLog(2, foldChange)]
                         ELSE NoLog]

\* a variant that maps every record, the reference included
computeFoldChangesOfAll(records, reference) ==
  LET found == SelectSeq(records, LAMBDA g : g.group = reference)
  IN IF found = <<>> THEN <<>>
     ELSE [i \in 1..Len(records) |-> FoldEntry(records[i], found[1], reference)]

computeFoldChanges(records, reference) ==
  LET found == SelectSeq(records, LAMBDA g : g.group = reference)
      others == SelectSeq(records, LAMBDA g : g.group # reference)
  IN IF found = <<>> THEN <<>>
     ELSE [i \in 1..Len(others) |-> FoldEntry(others[i], found[1], reference)]

\* the records handed to computeFoldChanges: up to MaxFoldGroups groups, each
\* once, with means whose ratios are 0, negative or powers of two
FoldGroups == {"A", "B", "C", "D"}
FoldMeans == {XInt(-2), XInt(0), XInt(1), XInt(2), XInt(4)}
FoldStats ==
  {s \in UNION {[1..k -> [group : FoldGroups, mean : FoldMeans]] : k \in 0..MaxFoldGroups} :
     \A i, j \in 1..Len(s) : s[i].group = s[j].group => i = j}

FoldInit ==
  /\ PageInit
  /\ AdjIdle
  /\ callPc = "input"
  /\ callArgs \in {[fn |-> "computeFoldChanges", stats |-> s, reference |-> r] :
                     s \in FoldStats, r \in {"A", "B"}}
  /\ callRet = NoReturn

\* computeFoldChanges(stats, reference)
CallComputeFoldChanges ==
  /\ callPc = "input"
  /\ callArgs.fn = "computeFoldChanges"
  /\ callPc' = "returned"
  /\ callRet' = [isNull |-> FALSE,
                 result |-> computeFoldChanges(callArgs.stats, callArgs.reference)]
  /\ UNCHANGED <<callArgs, pageVars, adjVars>>

FoldNext == CallComputeFoldChanges

SpecFoldChange == FoldInit /\ [][FoldNext]_vars

FoldReturned == callPc = "returned" /\ callArgs.fn = "computeFoldChanges"

\* q = num / den for whole numbers num and den; the IEEE quotient when den = 0
IsQuotient(q, num, den) ==
  IF den # 0 THEN q[2] > 0 /\ q[1] * den = q[2] * num
  ELSE q = (IF num > 0 THEN PosInf ELSE IF num < 0 THEN NegInf ELSE NaN)

\* l = log2(f) for f > 0
IsLog2(l, f) ==
  IF f = PosInf THEN l = PosInf
  ELSE /\ l[2] = 1
       /\ IF l[1] >= 0 THEN f = <<Pow(2, l[1]), 1>> ELSE f = <<1, Pow(2, -l[1])>>

\* C21: computeFoldChanges returns an empty list when the reference group has
\* no record; otherwise one entry per non-reference group, in stats order,
\* with foldChange = mean / refMean, percentChange = (mean - refMean) / refMean
\* * 100 = (foldChange - 1) * 100, and log2FoldChange = log2(foldChange) when
\* foldChange > 0 and null otherwise.
C21_FoldChanges ==
  FoldReturned =>
    LET records == callArgs.stats
        out == callRet.result
        refs == {i \in 1..Len(records) : records[i].group = callArgs.reference}
        others == SelectSeq(records, LAMBDA g : g.group # callArgs.reference)
    IN IF refs = {} THEN out = <<>>
       ELSE LET refMean == records[CHOOSE i \in refs : TRUE].mean[1]
            IN /\ Len(out) = Len(others)
               /\ \A i \in 1..Len(out) :
                    LET mean == others[i].mean[1]
                        e == out[i]
                    IN /\ e.group = others[i].group
                       /\ e.reference = callArgs.reference
                       /\ IsQuotient(e.foldChange, mean, refMean)
                       /\ IsQuotient(e.percentChange, (mean - refMean) * 100, refMean)
                       /\ e.percentChange = XMul(XSub(e.foldChange, ROne), XInt(100))
                       /\ IF XLt(RZero, e.foldChange)
                          THEN ~e.log2FoldChange.isNull /\ IsLog2(e.log2FoldChange.value, e.foldChange)
                          ELSE e.log2FoldChange.isNull

C21_Witness ==
  /\ FoldReturned
  /\ callArgs.reference = "A"
  /\ callArgs.stats = <<[group |-> "A", mean |-> XInt(2)], [group |-> "B", mean |-> XInt(4)]>>
  /\ Len(callRet.result) = 1
  /\ callRet.result[1].foldChange = XInt(2)
  /\ callRet.result[1].percentChange = XInt(100)
  /\ callRet.result[1].log2FoldChange = [isNull |-> FALSE, value |-> XInt(1)]

\* ---------------------------------------------------------------------------
\* The hypothesis test library of page.tsx: pairedTTest (315-329),
\* wilcoxonSignedRank (331-349), studentTTest (372-399), anovaOneWay (401-417),
\* mannWhitneyU (599-623) and kruskalWallis (625-649).  The p values (jStat
\* distribution functions) and the bootstrap intervals are left out of the
\* returned records; every other field is computed exactly.
\* ---------------------------------------------------------------------------

\* the longest paired sample handed to pairedTTest and wilcoxonSignedRank
MaxPairs == 4
\* the longest arm handed to the unpaired tests
MaxArm == 2

TestNull == [isNull |-> TRUE]

XList(a) == [i \in 1..Len(a) |-> XInt(a[i])]

IntSum(f) == XSum([i \in 1..Len(f) |-> XInt(f[i])])[1]

\* a.map((v, i) => v - b[i])
Diffs(a, b) == [i \in 1..Len(a) |-> a[i] - b[i]]

\* .filter((d) => d !== 0)
DropZeros(d) == SelectSeq(d, LAMBDA x : x # 0)

\* pairedTTest(a, b): t, sd, d and hedgesG need a square root and are left out
pairedTTest(a, b) ==
  IF Len(a) # Len(b) \/ Len(a) < 3 THEN TestNull
  ELSE LET diffs == Diffs(a, b)
       IN [isNull |-> FALSE, df |-> Len(diffs) - 1, diffs |-> diffs,
           diff |-> ssMean(XList(diffs))]

\* the rank of diffs[i]: its 1-based position after the stable sort by absolute
\* value, so that equal absolute values keep their order and get successive ranks
SignedRankOf(d, i) ==
  Cardinality({j \in 1..Len(d) :
                 \/ Abs(d[j]) < Abs(d[i])
                 \/ Abs(d[j]) = Abs(d[i]) /\ j <= i})

WilcoxonOf(d) ==
  LET n == Len(d)
      Wplus == IntSum([i \in 1..n |-> IF d[i] > 0 THEN SignedRankOf(d, i) ELSE 0])
      Wminus == IntSum([i \in 1..n |-> IF d[i] < 0 THEN SignedRankOf(d, i) ELSE 0])
  IN IF n * (n + 1) * (2 * n + 1) = 0 THEN TestNull
     ELSE [isNull |-> FALSE, W |-> IF Wplus < Wminus THEN Wplus ELSE Wminus,
           n |-> n, diffs |-> d]

\* wilcoxonSignedRank without the filter on the differences
wilcoxonSignedRankKeepZeros(a, b) ==
  IF Len(a) # Len(b) \/ Len(a) < 3 THEN TestNull
  ELSE WilcoxonOf(Diffs(a, b))

wilcoxonSignedRank(a, b) ==
  IF Len(a) # Len(b) \/ Len(a) < 3 THEN TestNull
  ELSE LET diffs == DropZeros(Diffs(a, b))
       IN IF Len(diffs) < 3 THEN TestNull ELSE WilcoxonOf(diffs)

\* studentTTest(a, b, equalVariance): variance is the population variance of
\* simple-statistics; t, d and hedgesG need a square root and are left out
studentTTest(a, b, equalVariance) ==
  LET na == Len(a)
      nb == Len(b)
      varA == ssVariance(XList(a))
      varB == ssVariance(XList(b))
      perA == XDiv(varA, XInt(na))
      perB == XDiv(varB, XInt(nb))
      sum == XAdd(perA, perB)
  IN [isNull |-> FALSE,
      diff |-> XSub(ssMean(XList(a)), ssMean(XList(b))),
      sp2 |-> IF equalVariance
              THEN XDiv(XAdd(XMul(XInt(na - 1), varA), XMul(XInt(nb - 1), varB)),
                        XInt(na + nb - 2))
              ELSE XDiv(XAdd(varA, varB), XInt(2)),
      df |-> IF equalVariance THEN XInt(na + nb - 2)
             ELSE XDiv(XMul(sum, sum),
                       XAdd(XDiv(XMul(perA, perA), XInt(na - 1)),
                            XDiv(XMul(perB, perB), XInt(nb - 1))))]

\* anovaOneWay(groups): f, eta2 and omega2 follow from the fields kept here
anovaOneWay(tg) ==
  LET keys == GroupKeys(tg)
      k == Len(keys)
      n == TotalN(tg)
      ssWithin == XSum([i \in 1..k |-> SumSquaredDeviations(XList(tg[keys[i]]))])
      grand == ssMean(XList(FlatValues(tg)))
      ssBetween ==
        XSum([i \in 1..k |->
               LET dev == XSub(ssMean(XList(tg[keys[i]])), grand)
               IN XMul(XInt(Len(tg[keys[i]])), XMul(dev, dev))])
  IN [isNull |-> FALSE, dfBetween |-> k - 1, dfWithin |-> n - k,
      msBetween |-> XDiv(ssBetween, XInt(k - 1)),
      msWithin |-> XDiv(ssWithin, XInt(n - k))]

\* twice the rank (i + j + 1) / 2 given to the value v of the sorted list
\* combined: i values are smaller and j - i values are equal to it
MidRank2(combined, v) ==
  LET i == Cardinality({x \in 1..Len(combined) : combined[x] < v})
      j == i + Cardinality({x \in 1..Len(combined) : combined[x] = v})
  IN i + j + 1

\* mannWhitneyU(a, b): rankBiserial follows from U
mannWhitneyU(a, b) ==
  LET combined == a \o b
      na == Len(a)
      nb == Len(b)
      Ra == XDiv(XSum([i \in 1..na |-> XInt(MidRank2(combined, a[i]))]), XInt(2))
      U1 == XSub(Ra, XRat(na * (na + 1), 2))
      U2 == XSub(XInt(na * nb), U1)
  IN [isNull |-> FALSE, U |-> IF XLt(U2, U1) THEN U2 ELSE U1,
      rankBiserial |-> XSub(XInt(1), XDiv(XMul(XInt(2), IF XLt(U2, U1) THEN U2 ELSE U1),
                                          XInt(na * nb)))]

\* kruskalWallis(groups)
kruskalWallis(tg) ==
  LET keys == GroupKeys(tg)
      combined == FlatValues(tg)
      n == Len(combined)
      rankSum(g) ==
        XDiv(XSum([i \in 1..Len(tg[g]) |-> XInt(MidRank2(combined, tg[g][i]))]), XInt(2))
      spread ==
        XSum([i \in 1..Len(keys) |->
               XDiv(XMul(rankSum(keys[i]), rankSum(keys[i])), XInt(Len(tg[keys[i]])))])
  IN [isNull |-> FALSE,
      rankSums |-> [g \in GroupNames |-> IF Len(tg[g]) > 0 THEN rankSum(g) ELSE XInt(0)],
      keys |-> keys, n |-> n, df |-> Len(keys) - 1,
      H |-> XSub(XMul(XDiv(XInt(12), XInt(n * (n + 1))), spread), XInt(3 * (n + 1)))]

PairedTests == {"pairedTTest", "wilcoxonSignedRank"}
TwoSampleTests == {"studentTTest", "mannWhitneyU"}
GroupTests == {"anovaOneWay", "kruskalWallis"}

PairValuesA == {0, 1, 2}
PairValuesB == {0, 1}

\* the samples the page hands to the library: paired columns of any two
\* lengths, and non-empty arms (decision is computed over the non-empty groups)
TestInputs ==
  {[fn |-> f, a |-> a, b |-> b, c |-> <<>>, equalVariance |-> FALSE] :
     f \in PairedTests, a \in SeqsUpTo(PairValuesA, MaxPairs),
     b \in SeqsUpTo(PairValuesB, MaxPairs)}
  \cup
  {[fn |-> f, a |-> a, b |-> b, c |-> <<>>, equalVariance |-> e] :
     f \in TwoSampleTests, e \in BOOLEAN,
     a \in SeqsUpTo(PairValuesA, MaxArm) \ {<<>>},
     b \in SeqsUpTo(PairValuesB, MaxArm) \ {<<>>}}
  \cup
  {[fn |-> f, a |-> a, b |-> b, c |-> c, equalVariance |-> FALSE] :
     f \in GroupTests,
     a \in SeqsUpTo(PairValuesA, MaxArm) \ {<<>>},
     b \in SeqsUpTo(PairValuesB, MaxArm) \ {<<>>},
     c \in SeqsUpTo({1}, MaxArm - 1)}

TestGroups(args) == [g \in GroupNames |->
                       IF g = "A" THEN args.a ELSE IF g = "B" THEN args.b ELSE args.c]

TestInit ==
  /\ PageInit /\ AdjIdle
  /\ callPc = "input"
  /\ callArgs \in TestInputs
  /\ callRet = NoReturn

CallTest ==
  /\ callPc = "input"
  /\ callArgs.fn \in PairedTests \cup TwoSampleTests \cup GroupTests
  /\ callRet' =
       CASE callArgs.fn = "pairedTTest" -> pairedTTest(callArgs.a, callArgs.b)
         [] callArgs.fn = "wilcoxonSignedRank" -> wilcoxonSignedRank(callArgs.a, callArgs.b)
         [] callArgs.fn = "studentTTest" ->
              studentTTest(callArgs.a, callArgs.b, callArgs.equalVariance)
         [] callArgs.fn = "mannWhitneyU" -> mannWhitneyU(callArgs.a, callArgs.b)
         [] callArgs.fn = "anovaOneWay" -> anovaOneWay(TestGroups(callArgs))
         [] callArgs.fn = "kruskalWallis" -> kruskalWallis(TestGroups(callArgs))
  /\ callPc' = "returned"
  /\ UNCHANGED <<callArgs, pageVars, adjVars>>

TestNext == CallTest

SpecTestLibrary == TestInit /\ [][TestNext]_vars

TestReturned(f) == callPc = "returned" /\ callArgs.fn = f

\* ---------------------------------------------------------------------------
\* Claims about the hypothesis test library
\* ---------------------------------------------------------------------------

\* the number of pairs of unequal values, counted on the arguments
UnequalPairs(a, b) == Cardinality({i \in 1..Len(a) : a[i] # b[i]})

\* C24: wilcoxonSignedRank drops the zero differences before it ranks.  It
\* returns null exactly when the two samples differ in length, or there are
\* fewer than 3 pairs, or fewer than 3 differences are non-zero; otherwise n is
\* the number of non-zero differences and 0 <= W <= n(n+1)/4.
C24_WilcoxonSignedRank ==
  TestReturned("wilcoxonSignedRank") =>
    LET a == callArgs.a
        b == callArgs.b
        tooFew == Len(a) # Len(b) \/ Len(a) < 3 \/ UnequalPairs(a, b) < 3
    IN /\ callRet.isNull <=> tooFew
       /\ ~callRet.isNull =>
            /\ callRet.n = UnequalPairs(a, b)
            /\ \A i \in 1..Len(callRet.diffs) : callRet.diffs[i] # 0
            /\ 0 <= callRet.W
            /\ 4 * callRet.W <= callRet.n * (callRet.n + 1)

\* four pairs of which one is a zero difference: the test ranks the other three
C24_Witness ==
  /\ TestReturned("wilcoxonSignedRank")
  /\ callArgs.a = <<1, 0, 2, 1>>
  /\ callArgs.b = <<0, 1, 0, 1>>
  /\ callRet = [isNull |-> FALSE, W |-> 2, n |-> 3, diffs |-> <<1, -1, 2>>]

\* the orderings of n pairs
Orderings(n) == {p \in [1..n -> 1..n] : \A i, j \in 1..n : p[i] = p[j] => i = j}

Reordered(a, p) == [i \in 1..Len(a) |-> a[p[i]]]

\* C22: tied values get their mid rank in every rank-based test; in
\* particular wilcoxonSignedRank gives equal ranks to differences of equal
\* absolute value, so W is the same for every ordering of the same pairs.
C22_WilcoxonOrderFree ==
  (TestReturned("wilcoxonSignedRank") /\ ~callRet.isNull) =>
    \A p \in Orderings(Len(callArgs.a)) :
      LET again == wilcoxonSignedRank(Reordered(callArgs.a, p), Reordered(callArgs.b, p))
      IN ~again.isNull /\ again.W = callRet.W

\* the unpaired tests do give tied values their mid rank: U1 of mannWhitneyU
\* counts a pair with a[i] > b[j] once and a tied pair one half, and the rank
\* sums of kruskalWallis do not depend on the order within a group
MidRanksInUnpairedTests ==
  /\ (TestReturned("mannWhitneyU")) =>
       LET a == callArgs.a
           b == callArgs.b
           wins == Cardinality({ij \in (1..Len(a)) \X (1..Len(b)) : a[ij[1]] > b[ij[2]]})
           ties == Cardinality({ij \in (1..Len(a)) \X (1..Len(b)) : a[ij[1]] = b[ij[2]]})
           U1 == XRat(2 * wins + ties, 2)
           U2 == XSub(XInt(Len(a) * Len(b)), U1)
       IN callRet.U = IF XLt(U2, U1) THEN U2 ELSE U1
  /\ (TestReturned("kruskalWallis")) =>
       \A p \in Orderings(Len(callArgs.a)) :
         kruskalWallis([TestGroups(callArgs) EXCEPT !.A = Reordered(callArgs.a, p)]).rankSums
           = callRet.rankSums

\* the sample-size precondition of the called test is not met
SampleTooSmall ==
  LET a == callArgs.a
      b == callArgs.b
      tg == TestGroups(callArgs)
  IN CASE callArgs.fn = "pairedTTest" -> Len(a) # Len(b) \/ Len(a) < 3
       [] callArgs.fn = "wilcoxonSignedRank" ->
            Len(a) # Len(b) \/ Len(a) < 3 \/ UnequalPairs(a, b) < 3
       [] callArgs.fn = "studentTTest" -> Len(a) < 2 \/ Len(b) < 2
       [] callArgs.fn = "anovaOneWay" -> TotalN(tg) - Len(GroupKeys(tg)) <= 0
       [] OTHER -> FALSE

\* C23: every function of the test library returns null when a sample-size
\* precondition is unmet, for example a t-test arm with a single observation
\* or an ANOVA whose within-group degrees of freedom are 0.
C23_NullWhenSampleTooSmall ==
  (callPc = "returned" /\ callArgs.fn \in PairedTests \cup TwoSampleTests \cup GroupTests
     /\ SampleTooSmall) => callRet.isNull

\* the two paired tests do return null on a sample that is too small
PairedTestsNullWhenTooSmall ==
  (callPc = "returned" /\ callArgs.fn \in PairedTests /\ SampleTooSmall) => callRet.isNull

\* the unpaired tests have no return of null: on a sample that is too small
\* studentTTest returns a record whose Welch df is NaN and anovaOneWay one
\* whose msWithin is NaN
UnpairedTestsNeverNull ==
  (callPc = "returned" /\ callArgs.fn \in TwoSampleTests \cup GroupTests) =>
    /\ ~callRet.isNull
    /\ (TestReturned("studentTTest") /\ SampleTooSmall /\ ~callArgs.equalVariance)
         => XIsNaN(callRet.df)
    /\ (TestReturned("anovaOneWay") /\ SampleTooSmall) => XIsNaN(callRet.msWithin)

\* ---------------------------------------------------------------------------
\* fit4PL (page.tsx 823-898).  The Levenberg-Marquardt fits and the bootstrap
\* of EC50 are numeric searches whose results (top, hill, ec50, bottom, ci) are
\* left out of the returned record.  The p values that the residuals of the
\* preliminary fit yield are an input of the model, one per point.
\* ---------------------------------------------------------------------------

\* the most points handed to fit4PL
MaxPoints == 6

\* const threshold = 0.01
RoutQNum == 1
RoutQDen == 100

\* the 1-based position of point i in ranked: pVals sorted ascending, points of
\* equal p in input order
RoutRank(pVals, i) ==
  Cardinality({j \in 1..Len(pVals) :
                 \/ RLt(pVals[j], pVals[i])
                 \/ pVals[j] = pVals[i] /\ j <= i})

\* item.p <= ((i + 1) / m) * threshold, for the item of 1-based rank k
UnderRoutLine(p, k, m) == RLe(p, Rat(k * RoutQNum, m * RoutQDen))

\* toDrop, as 1-based positions in the input
toDrop(pVals) ==
  {i \in 1..Len(pVals) : UnderRoutLine(pVals[i], RoutRank(pVals, i), Len(pVals))}

\* Array.from(toDrop.values()): the 0-based indices in the order of insertion,
\* which is the order of ranked
DroppedOf(pVals) ==
  LET flagged == toDrop(pVals)
      place(i) == Cardinality({j \in flagged : RoutRank(pVals, j) <= RoutRank(pVals, i)})
  IN [r \in 1..Cardinality(flagged) |-> (CHOOSE i \in flagged : place(i) = r) - 1]

\* fit4PL whose rejection drops whatever was flagged
fit4PLDropAnyNumber(x, y, rout, pVals) ==
  IF Len(x) < 4 \/ Len(y) < 4 THEN [isNull |-> TRUE]
  ELSE IF rout /\ Len(x) > 5
       THEN [isNull |-> FALSE, usedPoints |-> Len(x) - Cardinality(toDrop(pVals)),
             dropped |-> DroppedOf(pVals)]
       ELSE [isNull |-> FALSE, usedPoints |-> Len(x), dropped |-> <<>>]

fit4PL(x, y, rout, pVals) ==
  IF Len(x) < 4 \/ Len(y) < 4 THEN [isNull |-> TRUE]
  ELSE IF /\ rout /\ Len(x) > 5
          /\ Cardinality(toDrop(pVals)) > 0
          /\ Cardinality(toDrop(pVals)) < Len(x) - 3
       THEN [isNull |-> FALSE, usedPoints |-> Len(x) - Cardinality(toDrop(pVals)),
             dropped |-> DroppedOf(pVals)]
       ELSE [isNull |-> FALSE, usedPoints |-> Len(x), dropped |-> <<>>]

\* residual p values on either side of the lines k/m * 0.01 for m = 6, 7
RoutPValues == {Rat(1, 1000), Rat(1, 400), Rat(1, 2)}

\* doseFit hands over one x and one y per row: x = 1, 2, ..., y = 0
FitInputs ==
  {[fn |-> "fit4PL", x |-> [i \in 1..n |-> i], y |-> [i \in 1..n |-> 0],
    rout |-> r, pVals |-> pv] :
     n \in 0..MaxPoints, r \in BOOLEAN, pv \in SeqsUpTo(RoutPValues, MaxPoints)}

FitInit ==
  /\ PageInit /\ AdjIdle
  /\ callPc = "input"
  /\ callArgs \in {args \in FitInputs :
                     Len(args.pVals) = IF args.rout /\ Len(args.x) > 5 THEN Len(args.x) ELSE 0}
  /\ callRet = NoReturn

CallFit4PL ==
  /\ callPc = "input"
  /\ callArgs.fn = "fit4PL"
  /\ callRet' = fit4PL(callArgs.x, callArgs.y, callArgs.rout, callArgs.pVals)
  /\ callPc' = "returned"
  /\ UNCHANGED <<callArgs, pageVars, adjVars>>

FitNext == CallFit4PL

SpecFit4PL == FitInit /\ [][FitNext]_vars

FitReturned == callPc = "returned" /\ callArgs.fn = "fit4PL"

Rejecting == FitReturned /\ callArgs.rout /\ Len(callArgs.x) > 5

\* C25: the rejection is a step-up rule: when the p value of rank k is at most
\* (k/m) * 0.01, every point of rank k or less is flagged, whether or not it
\* is under the line of its own rank.
C25_RoutStepUp ==
  Rejecting =>
    LET pv == callArgs.pVals
        m == Len(pv)
    IN \A i \in 1..m :
         UnderRoutLine(pv[i], RoutRank(pv, i), m) =>
           \A j \in 1..m : RoutRank(pv, j) <= RoutRank(pv, i) => j \in toDrop(pv)

\* what the code does: a point is flagged exactly when it is under the line of
\* its own rank
RoutFlagsOwnLineOnly ==
  Rejecting =>
    \A i \in 1..Len(callArgs.pVals) :
      i \in toDrop(callArgs.pVals)
        <=> UnderRoutLine(callArgs.pVals[i], RoutRank(callArgs.pVals, i), Len(callArgs.pVals))

\* C26: fit4PL returns null with fewer than 4 points.  Otherwise usedPoints
\* plus the number of dropped points is the number of input points and dropped
\* holds distinct indices into the input; points are dropped only if rejection
\* is enabled, at least one point was flagged and at least 3 points remain;
\* with rejection disabled dropped is empty and usedPoints is the input length.
C26_Fit4PLDropped ==
  FitReturned =>
    LET n == Len(callArgs.x)
    IN /\ n < 4 => callRet.isNull
       /\ n >= 4 =>
            /\ ~callRet.isNull
            /\ callRet.usedPoints + Len(callRet.dropped) = n
            /\ \A i \in 1..Len(callRet.dropped) : callRet.dropped[i] \in 0..(n - 1)
            /\ \A i, j \in 1..Len(callRet.dropped) :
                 callRet.dropped[i] = callRet.dropped[j] => i = j
            /\ Len(callRet.dropped) > 0 =>
                 /\ callArgs.rout
                 /\ toDrop(callArgs.pVals) # {}
                 /\ callRet.usedPoints >= 3
            /\ ~callArgs.rout => (callRet.dropped = <<>> /\ callRet.usedPoints = n)

\* six points of which the third and the first are rejected, in that order
C26_Witness ==
  /\ FitReturned
  /\ callArgs.rout
  /\ callArgs.pVals = <<Rat(1, 400), Rat(1, 2), Rat(1, 1000), Rat(1, 2), Rat(1, 2), Rat(1, 2)>>
  /\ callRet = [isNull |-> FALSE, usedPoints |-> 4, dropped |-> <<2, 0>>]

\* ---------------------------------------------------------------------------
\* twoWayANOVA (page.tsx 498-576).  The F ratios and pA, pB come from sums of
\* squares and jStat.centralF.cdf and are left out of the returned record; the
\* interaction p value pAB, which decides on the simple effects, is an input of
\* the model.
\* ---------------------------------------------------------------------------

\* the most rows handed to twoWayANOVA
MaxAnovaRows == 5

\* safeNumeric(r[response]) === null
NoY == "null"

LevelsA == <<"a1", "a2">>
LevelsB == <<"b1", "b2">>

\* a row by its kind 0..7: the level of factor A, the level of factor B and
\* whether the response is numeric
AnovaRow(kind) ==
  [a |-> LevelsA[(kind \div 4) + 1], b |-> LevelsB[((kind \div 2) % 2) + 1],
   y |-> IF kind % 2 = 0 THEN NoY ELSE "1"]

\* Array.from(new Set(data.map((d) => d.a))): in order of first appearance
LevelsOfA(data) ==
  LET firsts == SelectSeq([i \in 1..Len(data) |-> i],
                          LAMBDA i : \A j \in 1..(i - 1) : data[j].a # data[i].a)
  IN [k \in 1..Len(firsts) |-> data[firsts[k]].a]

LevelsOfB(data) ==
  LET firsts == SelectSeq([i \in 1..Len(data) |-> i],
                          LAMBDA i : \A j \in 1..(i - 1) : data[j].b # data[i].b)
  IN [k \in 1..Len(firsts) |-> data[firsts[k]].b]

\* the simple effects of A within each level of B: anovaOneWay of the groups
\* of the subset, whose dfBetween is k - 1 and dfWithin n - k
SimpleEffectsOfA(data) ==
  LET subset(b) == SelectSeq(data, LAMBDA d : d.b = b)
      tested == SelectSeq(LevelsOfB(data), LAMBDA b : Len(LevelsOfA(subset(b))) > 1)
  IN [k \in 1..Len(tested) |->
        [within |-> [factor |-> "B", level |-> tested[k]], factor |-> "A",
         df1 |-> Len(LevelsOfA(subset(tested[k]))) - 1,
         df2 |-> Len(subset(tested[k])) - Len(LevelsOfA(subset(tested[k])))]]

SimpleEffectsOfB(data) ==
  LET subset(a) == SelectSeq(data, LAMBDA d : d.a = a)
      tested == SelectSeq(LevelsOfA(data), LAMBDA a : Len(LevelsOfB(subset(a))) > 1)
  IN [k \in 1..Len(tested) |->
        [within |-> [factor |-> "A", level |-> tested[k]], factor |-> "B",
         df1 |-> Len(LevelsOfB(subset(tested[k]))) - 1,
         df2 |-> Len(subset(tested[k])) - Len(LevelsOfB(subset(tested[k])))]]

AnovaTable(data, pAB) ==
  LET nA == Len(LevelsOfA(data))
      nB == Len(LevelsOfB(data))
  IN [isNull |-> FALSE, dfA |-> nA - 1, dfB |-> nB - 1, dfAB |-> (nA - 1) * (nB - 1),
      dfE |-> Len(data) - nA * nB, pAB |-> pAB,
      simpleEffects |-> IF Below05(pAB)
                        THEN SimpleEffectsOfA(data) \o SimpleEffectsOfB(data)
                        ELSE <<>>]

\* twoWayANOVA without the return of null on dfE <= 0
twoWayANOVAAnyDfE(rows, pAB) ==
  IF Len(rows) = 0 THEN [isNull |-> TRUE]
  ELSE LET data == SelectSeq(rows, LAMBDA r : r.y # NoY)
       IN IF Len(data) = 0 THEN [isNull |-> TRUE] ELSE AnovaTable(data, pAB)

twoWayANOVA(rows, pAB) ==
  IF Len(rows) = 0 THEN [isNull |-> TRUE]
  ELSE LET data == SelectSeq(rows, LAMBDA r : r.y # NoY)
       IN IF Len(data) = 0 THEN [isNull |-> TRUE]
          ELSE IF Len(data) - Len(LevelsOfA(data)) * Len(LevelsOfB(data)) <= 0
               THEN [isNull |-> TRUE]
               ELSE AnovaTable(data, pAB)

\* the rows of a table, kinds ascending or descending
AnovaKindLists ==
  {ks \in SeqsUpTo(0..7, MaxAnovaRows) :
     \/ \A i \in 1..(Len(ks) - 1) : ks[i] <= ks[i + 1]
     \/ \A i \in 1..(Len(ks) - 1) : ks[i] >= ks[i + 1]}

AnovaInputs ==
  {[fn |-> "twoWayANOVA", rows |-> [i \in 1..Len(ks) |-> AnovaRow(ks[i])], pAB |-> p] :
     ks \in AnovaKindLists, p \in {PLow, PHigh, NaN}}

AnovaInit ==
  /\ PageInit /\ AdjIdle
  /\ callPc = "input"
  /\ callArgs \in AnovaInputs
  /\ callRet = NoReturn

CallTwoWayANOVA ==
  /\ callPc = "input"
  /\ callArgs.fn = "twoWayANOVA"
  /\ callRet' = twoWayANOVA(callArgs.rows, callArgs.pAB)
  /\ callPc' = "returned"
  /\ UNCHANGED <<callArgs, pageVars, adjVars>>

AnovaNext == CallTwoWayANOVA

SpecTwoWayANOVA == AnovaInit /\ [][AnovaNext]_vars

AnovaReturned == callPc = "returned" /\ callArgs.fn = "twoWayANOVA"

\* the rows with a numeric response, and the levels among them, as sets
NumericRows == {i \in 1..Len(callArgs.rows) : callArgs.rows[i].y # NoY}
PresentA == {callArgs.rows[i].a : i \in NumericRows}
PresentB == {callArgs.rows[i].b : i \in NumericRows}

\* the entry is the one-way ANOVA of factor A within one level of B (or of B
\* within one level of A) in which at least two levels of that factor occur
IsSimpleEffect(e) ==
  LET inLevel == {i \in NumericRows :
                    IF e.factor = "A" THEN callArgs.rows[i].b = e.within.level
                    ELSE callArgs.rows[i].a = e.within.level}
      analysed == {IF e.factor = "A" THEN callArgs.rows[i].a ELSE callArgs.rows[i].b :
                     i \in inLevel}
  IN /\ e.within.factor = (IF e.factor = "A" THEN "B" ELSE "A")
     /\ e.within.level \in (IF e.factor = "A" THEN PresentB ELSE PresentA)
     /\ Cardinality(analysed) >= 2
     /\ e.df1 = Cardinality(analysed) - 1
     /\ e.df2 = Cardinality(inLevel) - Cardinality(analysed)

\* C27: twoWayANOVA returns null when no row has a numeric response or when
\* dfE = n - |A|*|B| <= 0.  Otherwise dfA = |A| - 1, dfB = |B| - 1 and
\* dfAB = dfA * dfB; simpleEffects is non-empty only if the interaction p value
\* is below 0.05, and each entry is a one-way ANOVA of one factor within a
\* single level of the other factor with at least two levels of the analysed
\* factor present.
C27_TwoWayANOVA ==
  AnovaReturned =>
    LET n == Cardinality(NumericRows)
        dfE == n - Cardinality(PresentA) * Cardinality(PresentB)
    IN /\ (n = 0 \/ dfE <= 0) => callRet.isNull
       /\ ~(n = 0 \/ dfE <= 0) =>
            /\ ~callRet.isNull
            /\ callRet.dfA = Cardinality(PresentA) - 1
            /\ callRet.dfB = Cardinality(PresentB) - 1
            /\ callRet.dfAB = callRet.dfA * callRet.dfB
            /\ callRet.dfE = dfE
            /\ callRet.simpleEffects # <<>> => Below05(callArgs.pAB)
            /\ \A k \in 1..Len(callRet.simpleEffects) :
                 IsSimpleEffect(callRet.simpleEffects[k])

\* a 2 x 2 table of five numeric rows with a significant interaction and one
\* empty cell: one simple effect of A and one of B are reported
C27_Witness ==
  /\ AnovaReturned
  /\ ~callRet.isNull
  /\ callRet.dfA = 1 /\ callRet.dfB = 1 /\ callRet.dfAB = 1 /\ callRet.dfE = 1
  /\ Len(callRet.simpleEffects) = 2
  /\ callRet.simpleEffects[1].factor = "A"
  /\ callRet.simpleEffects[2].factor = "B"

==============================================================================
